---- MODULE Spec2Model ----
(***************************************************************************)
(* Model of hayagriva's CSL rendering engine (src/csl/rendering/mod.rs):   *)
(* the recursive interpreter over the rendering-element tree and the       *)
(* provisional-output assembly (push / commit / discard of regions).       *)
(*                                                                         *)
(* The interpreter is a recursive Rust tree walk; it is modelled as a      *)
(* machine with an explicit stack of frames, one action per renderer or    *)
(* loop step.  Strings are sequences of one-character strings.             *)
(*                                                                         *)
(* The span utility (src/selectors/span.rs) is modelled beside it, with    *)
(* its own variables and its own specification SpanSpec.                   *)
(***************************************************************************)
EXTENDS Integers, Sequences, FiniteSets, TLC

VARIABLES style, entry, instance, ctx, stack, ev, span, span_op

vars == <<style, entry, instance, ctx, stack, ev, span, span_op>>

(***************************************************************************)
(* Bounds                                                                  *)
(***************************************************************************)
MaxChildren == 3

MaxBranches == 2

\* the largest position of a span
MaxPos == 4

(***************************************************************************)
(* Options and strings                                                     *)
(***************************************************************************)
None == [some |-> FALSE]

Some(x) == [some |-> TRUE, v |-> x]

EmptyStr == << >>

OrEmpty(o) == IF o.some THEN o.v ELSE EmptyStr

RECURSIVE Digits(_)
\* decimal digits of a natural number (Rust "{}" on a non-negative integer)
Digits(n) ==
    LET d == <<"0", "1", "2", "3", "4", "5", "6", "7", "8", "9">>[(n % 10) + 1]
    IN IF n < 10 THEN <<d>> ELSE Append(Digits(n \div 10), d)

RECURSIVE ZeroPad(_, _)
\* left-pad with '0' up to width w
ZeroPad(s, w) == IF Len(s) >= w THEN s ELSE ZeroPad(<<"0">> \o s, w)

\* Rust "{}" on an i32
FmtInt(n) == IF n < 0 THEN <<"-">> \o Digits(-n) ELSE Digits(n)

\* Rust "{:0w}" on an i32: sign-aware zero padding, the sign counts in the width
FmtIntPadded(n, w) ==
    IF n < 0 THEN <<"-">> \o ZeroPad(Digits(-n), w - 1) ELSE ZeroPad(Digits(n), w)

\* Rust i32 remainder: truncates toward zero, sign of the dividend
RustRem(a, b) == IF a >= 0 THEN a % b ELSE -((-a) % b)

Abs(n) == IF n < 0 THEN -n ELSE n

\* the en dash U+2013, one character
EnDash == <<"EN-DASH">>

IsDigit(ch) == ch \in {"0", "1", "2", "3", "4", "5", "6", "7", "8", "9"}

(***************************************************************************)
(* Span  (src/selectors/span.rs 110-150)                                   *)
(* A position is a natural number (Pos wraps a u32); a span is a pair of   *)
(* positions; a Range<usize> is the pair of its bounds, and RangeContains  *)
(* is membership in start..end.                                            *)
(***************************************************************************)
PosMin(a, b) == IF a <= b THEN a ELSE b

PosMax(a, b) == IF a >= b THEN a ELSE b

ZERO == [start |-> 0, end |-> 0]

new(start, end) == [start |-> start, end |-> end]

at(pos) == new(pos, pos)

\* join that keeps the later start and the earlier end
join_Overlap(self, other) ==
    [start |-> PosMax(self.start, other.start), end |-> PosMin(self.end, other.end)]

join(self, other) ==
    [start |-> PosMin(self.start, other.start), end |-> PosMax(self.end, other.end)]

\* the value expand leaves in self
expand(self, other) == join(self, other)

to_range(self) == [start |-> self.start, end |-> self.end]

\* Range::contains: start <= pos < end
RangeContains(range, pos) == range.start <= pos /\ pos < range.end

Positions == 0..MaxPos

\* the spans of slices of the source: the start is not after the end
SpanValues == {new(start, end) : <<start, end>> \in
                  {pair \in Positions \X Positions : pair[1] <= pair[2]}}

(***************************************************************************)
(* Output assembly (rendering context).  Its code lives in src/csl/mod.rs, *)
(* which is not among the sources; it is modelled from section 4.1 of the  *)
(* specification.  A mark is the depth of the region stack after the push. *)
(* last_op and pushes are history: the last region the context committed   *)
(* or discarded, and how many regions it has opened; mays and stops count   *)
(* the calls of may_strip_periods and stop_stripping_periods; case_log      *)
(* lists the text-cases the Date renderers handed to push_case.            *)
(***************************************************************************)
NewUsageInfo ==
    [has_vars |-> FALSE, has_non_empty_vars |-> FALSE,
     has_used_macros |-> FALSE, has_non_empty_group |-> FALSE]

InitCtx ==
    [buf |-> EmptyStr, elems |-> << >>, tags |-> << >>,
     usage |-> <<NewUsageInfo>>, formats |-> 0, cases |-> 0, quotes |-> 0,
     strip |-> FALSE, fault |-> FALSE,
     last_op |-> [op |-> "none", mark |-> 0], pushes |-> 0,
     mays |-> 0, stops |-> 0, case_log |-> << >>]

Fault(c) == [c EXCEPT !.fault = TRUE]

NotPeriod(ch) == ch # "."

\* the write primitive consults the period-stripping toggle
StripPeriods(c, s) == IF c.strip THEN SelectSeq(s, NotPeriod) ELSE s

push_str(c, s) == [c EXCEPT !.buf = @ \o StripPeriods(c, s)]

push_elem(c) ==
    [c EXCEPT !.elems = Append(@, [start |-> Len(c.buf), ntags |-> Len(c.tags)]),
              !.pushes = @ + 1]

\* the mark push_elem(c) returns
NextMark(c) == Len(c.elems) + 1

commit_elem(c, mark, tag) ==
    IF mark # Len(c.elems) \/ mark = 0 THEN Fault(c)
    ELSE [c EXCEPT
            !.elems = SubSeq(@, 1, mark - 1),
            !.last_op = [op |-> "commit", mark |-> mark],
            !.tags = IF tag.some
                     THEN Append(@, [from |-> c.elems[mark].start,
                                     to |-> Len(c.buf), tag |-> tag.v])
                     ELSE @]

\* discard_elem that closes the region and leaves what was written
discard_elem_NoTruncate(c, mark) ==
    IF mark # Len(c.elems) \/ mark = 0 THEN Fault(c)
    ELSE [c EXCEPT
            !.elems = SubSeq(@, 1, mark - 1),
            !.last_op = [op |-> "discard", mark |-> mark]]

discard_elem(c, mark) ==
    IF mark # Len(c.elems) \/ mark = 0 THEN Fault(c)
    ELSE [c EXCEPT
            !.elems = SubSeq(@, 1, mark - 1),
            !.last_op = [op |-> "discard", mark |-> mark],
            !.buf = SubSeq(@, 1, c.elems[mark].start),
            !.tags = SubSeq(@, 1, c.elems[mark].ntags)]

last_is_empty(c) ==
    IF c.elems = << >> THEN Len(c.buf) = 0
    ELSE Len(c.buf) = c.elems[Len(c.elems)].start

\* apply_prefix opens the affix region and writes the prefix at once
apply_prefix(c, affixes) == push_str(push_elem(c), OrEmpty(affixes.prefix))

\* the location apply_prefix(c, affixes) returns: the mark and the length
\* of the buffer right after the prefix
AffixLoc(c, affixes) ==
    [mark |-> NextMark(c), len |-> Len(c.buf) + Len(OrEmpty(affixes.prefix))]

\* nothing written since the prefix: the prefix goes too; otherwise the
\* suffix is written and the affix region kept
apply_suffix(c, affixes, loc) ==
    IF Len(c.buf) <= loc.len THEN discard_elem(c, loc.mark)
    ELSE commit_elem(push_str(c, OrEmpty(affixes.suffix)), loc.mark, None)

push_format(c) == [c EXCEPT !.formats = @ + 1]

pop_format(c, idx) ==
    IF c.formats # idx THEN Fault(c) ELSE [c EXCEPT !.formats = idx - 1]

push_case(c) == [c EXCEPT !.cases = @ + 1]

\* push_case with the text-case it is given
push_case_of(c, text_case) ==
    [push_case(c) EXCEPT !.case_log = Append(@, text_case)]

pop_case(c, idx) ==
    IF c.cases # idx THEN Fault(c) ELSE [c EXCEPT !.cases = idx - 1]

push_quotes(c) == [c EXCEPT !.quotes = @ + 1]

pop_quotes(c) == [c EXCEPT !.quotes = @ - 1]

may_strip_periods(c, flag) == [c EXCEPT !.strip = flag, !.mays = @ + 1]

stop_stripping_periods(c) == [c EXCEPT !.strip = FALSE, !.stops = @ + 1]

push_usage_info(c) == [c EXCEPT !.usage = Append(@, NewUsageInfo)]

\* the usage info pop_usage_info(c, idx) returns
PoppedUsageInfo(c, idx) == c.usage[idx]

pop_usage_info(c, idx) ==
    IF idx # Len(c.usage) THEN Fault(c)
    ELSE [c EXCEPT !.usage = SubSeq(@, 1, idx - 1)]

printed_non_empty_macro(c) ==
    [c EXCEPT !.usage[Len(c.usage)].has_used_macros = TRUE]

printed_non_empty_group(c) ==
    [c EXCEPT !.usage[Len(c.usage)].has_non_empty_group = TRUE]

\* every variable resolver records the reference in the innermost usage info
NoteVariable(c, present) ==
    [c EXCEPT !.usage[Len(c.usage)].has_vars = TRUE,
              !.usage[Len(c.usage)].has_non_empty_vars = @ \/ present]

(***************************************************************************)
(* Value resolvers, term table and macro table (external interfaces,       *)
(* section 6 of the specification).  entry maps a variable name to an      *)
(* optional value; a number value is typed (n, with an optional range end  *)
(* hi) or a plain string.                                                  *)
(***************************************************************************)
AuthorOnly == instance.kind = "AuthorOnly"

resolve_standard_variable(var) == entry[var]

resolve_number_variable(var) == entry[var]

resolve_date_variable(var) == entry[var]

get_macro(name) ==
    IF name \in DOMAIN style.macros THEN Some(style.macros[name]) ELSE None

\* term lookup: the singular or plural text of a term, absent when the
\* locale does not define it
term(name, plural) ==
    IF name \in DOMAIN style.terms
    THEN Some(IF plural THEN style.terms[name].multiple ELSE style.terms[name].single)
    ELSE None

\* Numeric::to_str / Display of a number value
NumericToStr(n) ==
    IF ~n.typed THEN n.s
    ELSE IF n.hi.some THEN Digits(n.n) \o <<"-">> \o Digits(n.hi.v)
    ELSE Digits(n.n)

(***************************************************************************)
(* Text  (mod.rs 30-131)                                                   *)
(***************************************************************************)
IsMacroTarget(e) == e.target.t = "Macro"

\* the match of lines 46-63: the resolved target, or None
ResolveTextTarget(e) ==
    CASE e.target.t = "Variable" /\ e.target.vk = "Standard" ->
            resolve_standard_variable(e.target.name)
      [] e.target.t = "Variable" /\ e.target.vk = "Number" ->
            LET n == resolve_number_variable(e.target.name)
            IN IF n.some THEN Some(NumericToStr(n.v)) ELSE None
      [] e.target.t = "Variable" -> None
      [] e.target.t = "Macro" -> get_macro(e.target.name)
      [] e.target.t = "Term" -> term(e.target.name, e.target.plural)
      [] OTHER -> Some(e.target.val)

\* the resolvers called by that match note the variable in the usage info
ResolveTextUsage(c, e) ==
    IF e.target.t = "Variable" /\ e.target.vk \in {"Standard", "Number"}
    THEN NoteVariable(c, ResolveTextTarget(e).some)
    ELSE c

\* lines 65-74: region, prefix, quotes, period stripping, case
TextOpen(c, e) ==
    LET c1 == apply_prefix(push_elem(c), e.affixes)
        c2 == IF e.quotes THEN push_quotes(c1) ELSE c1
    IN push_case(may_strip_periods(c2, e.strip_periods))

\* lines 116-129
TextClose(c, e, depth, affix_loc, cidx) ==
    LET c1 == stop_stripping_periods(pop_case(c, cidx))
        c2 == IF e.quotes THEN pop_quotes(c1) ELSE c1
        c3 == apply_suffix(c2, e.affixes, affix_loc)
    IN commit_elem(c3, depth,
                   IF e.target.t = "Variable" THEN Some("Text") ELSE None)

\* Text.render that writes the prefix and the suffix around any content
TextRender_PlainAffixes(c, e) ==
    IF AuthorOnly /\ ~IsMacroTarget(e) THEN c
    ELSE LET target == ResolveTextTarget(e)
             c0 == ResolveTextUsage(c, e)
         IN IF ~target.some THEN c0
            ELSE LET depth == NextMark(c0)
                     c1 == push_str(push_elem(c0), OrEmpty(e.affixes.prefix))
                     c2 == push_str(c1, target.v)
                     c3 == push_str(c2, OrEmpty(e.affixes.suffix))
                 IN commit_elem(c3, depth,
                                IF e.target.t = "Variable" THEN Some("Text") ELSE None)

\* Text.render without the test of the author-only mode of lines 40-44
TextRender_IgnoreAuthorOnly(c, e) ==
    LET target == ResolveTextTarget(e)
        c0 == ResolveTextUsage(c, e)
    IN IF ~target.some THEN c0
       ELSE LET depth == NextMark(c0)
                affix_loc == AffixLoc(push_elem(c0), e.affixes)
                cidx == c0.cases + 1
                c1 == TextOpen(c0, e)
                c2 == push_str(c1, target.v)
            IN TextClose(c2, e, depth, affix_loc, cidx)

\* Text.render for every target but a macro that exists
TextRender(c, e) ==
    IF AuthorOnly /\ ~IsMacroTarget(e) THEN c
    ELSE LET target == ResolveTextTarget(e)
             c0 == ResolveTextUsage(c, e)
         IN IF ~target.some THEN c0
            ELSE LET depth == NextMark(c0)
                     affix_loc == AffixLoc(push_elem(c0), e.affixes)
                     cidx == c0.cases + 1
                     c1 == TextOpen(c0, e)
                     c2 == push_str(c1, target.v)
                 IN TextClose(c2, e, depth, affix_loc, cidx)

(***************************************************************************)
(* Number  (mod.rs 133-203)                                                *)
(***************************************************************************)
\* Numeric::fmt_value(ctx, true): the machine-sortable form used for sorting
NumericSortValue(n) == ZeroPad(Digits(n.n), 9)

\* the match with the fallback of line 171 a hyphen
NumberContent_HyphenFallback(e, value) ==
    IF ~value.some THEN EmptyStr
    ELSE IF ~value.v.typed THEN value.v.s
    ELSE IF e.form = "Numeric" /\ e.variable = "page" /\ value.v.hi.some
         THEN Digits(value.v.n)
              \o OrEmpty(LET t == term("page-range-delimiter", FALSE)
                         IN IF t.some THEN t ELSE Some(<<"-">>))
              \o Digits(value.v.hi.v)
    ELSE NumericToStr(value.v)

\* lines 152-191: what the match writes
NumberContent(e, value) ==
    IF ~value.some THEN EmptyStr
    ELSE IF ~value.v.typed THEN value.v.s
    ELSE IF e.form = "Numeric" /\ e.variable = "page" /\ value.v.hi.some
         THEN Digits(value.v.n)
              \o OrEmpty(LET t == term("page-range-delimiter", FALSE)
                         IN IF t.some THEN t ELSE Some(EnDash))
              \o Digits(value.v.hi.v)
    ELSE NumericToStr(value.v)

\* the tag of lines 198-200 without the test of the citation number
NumberTag_AlwaysNumber(e) == Some("Number")

\* lines 198-200
NumberTag(e) ==
    IF e.variable = "citation_number" THEN Some("CitationNumber") ELSE Some("Number")

NumberRender(c, e) ==
    IF AuthorOnly THEN c
    ELSE LET value == resolve_number_variable(e.variable)
             c0 == NoteVariable(c, value.some)
         IN IF instance.sorting /\ value.some /\ value.v.typed
            THEN push_str(c0, NumericSortValue(value.v))
            ELSE LET depth == NextMark(c0)
                     c1 == push_elem(c0)
                     affix_loc == AffixLoc(c1, e.affixes)
                     c2 == apply_prefix(c1, e.affixes)
                     cidx == c2.cases + 1
                     c3 == push_case(c2)
                     c4 == push_str(c3, NumberContent(e, value))
                     c5 == pop_case(c4, cidx)
                     c6 == apply_suffix(c5, e.affixes, affix_loc)
                 IN commit_elem(c6, depth, NumberTag(e))

(***************************************************************************)
(* Label  (mod.rs 205-259)                                                 *)
(***************************************************************************)
\* Numeric::is_plural: a range is plural
NumericIsPlural(n) == n.hi.some

render_label_with_var(label, c, content) ==
    IF content = EmptyStr THEN c
    ELSE LET idx == c.formats + 1
             c1 == push_format(c)
             affix_loc == AffixLoc(c1, label.affixes)
             c2 == apply_prefix(c1, label.affixes)
             c3 == may_strip_periods(c2, label.strip_periods)
             cidx == c3.cases + 1
             c4 == push_str(push_case(c3), content)
             c5 == stop_stripping_periods(pop_case(c4, cidx))
             c6 == apply_suffix(c5, label.affixes, affix_loc)
         IN pop_format(c6, idx)

\* Label.render without the early return of lines 211-213
LabelRender_NoEarlyReturn(c, e) ==
    IF AuthorOnly THEN c
    ELSE LET variable == resolve_number_variable(e.variable)
             c0 == NoteVariable(c, variable.some)
             depth == NextMark(c0)
             c1 == push_elem(c0)
             plural == e.label.plural = "Always"
             content == IF variable.some THEN OrEmpty(term(e.variable, plural))
                        ELSE EmptyStr
             c2 == render_label_with_var(e.label, c1, content)
         IN commit_elem(c2, depth, Some("Label"))

LabelRender(c, e) ==
    IF AuthorOnly THEN c
    ELSE LET variable == resolve_number_variable(e.variable)
             c0 == NoteVariable(c, variable.some)
         IN IF ~variable.some THEN c0
            ELSE LET depth == NextMark(c0)
                     c1 == push_elem(c0)
                     plural == CASE e.label.plural = "Always" -> TRUE
                                 [] e.label.plural = "Never" -> FALSE
                                 [] OTHER -> IF variable.v.typed
                                             THEN NumericIsPlural(variable.v)
                                             ELSE FALSE
                     content == OrEmpty(term(e.variable, plural))
                     c2 == render_label_with_var(e.label, c1, content)
                 IN commit_elem(c2, depth, Some("Label"))

(***************************************************************************)
(* Date and date parts  (mod.rs 261-482)                                   *)
(* A date value is [year, month, day] with month and day optional and      *)
(* zero-indexed.  A part's form is the strong form DatePart::form() gives. *)
(***************************************************************************)
is_localized(e) == e.form.some

localized_date(form) ==
    IF form \in DOMAIN style.dates THEN Some(style.dates[form]) ELSE None

has_month(parts) == parts \in {"YearMonth", "YearMonthDay"}

has_day(parts) == parts = "YearMonthDay"

HasPart(list, name) == \E i \in 1..Len(list) : list[i].name = name

\* iter().find(|p| p.name == name)
FindPart(list, name) ==
    IF HasPart(list, name)
    THEN Some(list[CHOOSE i \in 1..Len(list) :
                     /\ list[i].name = name
                     /\ \A j \in 1..(i - 1) : list[j].name # name])
    ELSE None

\* the ordinal suffix the locale's ordinal table gives for a number
OrdinalSuffix(val) ==
    CASE val % 10 = 1 /\ val % 100 # 11 -> <<"s", "t">>
      [] val % 10 = 2 /\ val % 100 # 12 -> <<"n", "d">>
      [] val % 10 = 3 /\ val % 100 # 13 -> <<"r", "d">>
      [] OTHER -> <<"t", "h">>

\* the locale's month terms, when it defines them
MonthTerm(val, form) ==
    IF ~style.month_terms THEN None
    ELSE IF form = "Long" THEN Some(<<"M">> \o Digits(val))
    ELSE Some(<<"M">> \o Digits(val) \o <<".">>)

\* lines 473-482
render_year_suffix_implicitly(c) ==
    IF style.year_suffix_implicit
    THEN LET year_suffix == resolve_standard_variable("year_suffix")
             c0 == NoteVariable(c, year_suffix.some)
         IN IF year_suffix.some THEN push_str(c0, year_suffix.v) ELSE c0
    ELSE c

\* lines 371-377: the one-indexed value of the part, or None
DatePartValue(date_part, date) ==
    CASE date_part.name = "Day" ->
            IF date.day.some THEN Some(date.day.v + 1) ELSE None
      [] date_part.name = "Month" ->
            IF date.month.some THEN Some(date.month.v + 1) ELSE None
      [] OTHER -> Some(date.year)

\* the match on the form with the guard of lines 403-413 dropped: every day
\* in ordinal form gets its suffix
DatePartText_OrdinalAlways(name, form, val) ==
    CASE name \in {"Day", "Month"} /\ form = "NumericLeadingZeros" ->
            FmtIntPadded(val, 2)
      [] name = "Day" /\ form = "Ordinal" -> FmtInt(val) \o OrdinalSuffix(val)
      [] name = "Day" -> FmtInt(val)
      [] name = "Month" /\ form = "Numeric" -> FmtInt(val)
      [] name = "Month" ->
            LET month == MonthTerm(val, form)
            IN IF month.some THEN month.v ELSE FmtInt(val)
      [] name = "Year" /\ form = "Short" -> FmtIntPadded(Abs(RustRem(val, 100)), 2)
      [] OTHER -> FmtInt(Abs(val))

\* lines 397-456: what the match on the form writes
DatePartText(name, form, val) ==
    CASE name \in {"Day", "Month"} /\ form = "NumericLeadingZeros" ->
            FmtIntPadded(val, 2)
      [] name = "Day" /\ form = "Ordinal"
            /\ (val # 1 \/ ~style.limit_day_ordinals_to_day_1) ->
            FmtInt(val) \o OrdinalSuffix(val)
      [] name = "Day" -> FmtInt(val)
      [] name = "Month" /\ form = "Numeric" -> FmtInt(val)
      [] name = "Month" ->
            LET month == MonthTerm(val, form)
            IN IF month.some THEN month.v ELSE FmtInt(val)
      [] name = "Year" /\ form = "Short" -> FmtIntPadded(Abs(RustRem(val, 100)), 2)
      [] OTHER -> FmtInt(Abs(val))

\* render_date_part that opens the format scope before it finds the value
\* of the part absent and returns
render_date_part_LateReturn(c, date_part, date, over_ride) ==
    LET val == DatePartValue(date_part, date)
    IN IF ~val.some THEN push_format(c)
       ELSE LET idx == c.formats + 1
                c1 == push_format(c)
                affix_loc == AffixLoc(c1, date_part.affixes)
                c2 == apply_prefix(c1, date_part.affixes)
                c3 == IF date_part.name = "Month"
                      THEN may_strip_periods(c2, date_part.strip_periods)
                      ELSE c2
                cidx == c3.cases + 1
                c4 == push_case_of(c3, IF over_ride.some /\ over_ride.v.text_case.some
                                       THEN over_ride.v.text_case
                                       ELSE date_part.text_case)
                form == IF over_ride.some THEN over_ride.v.form ELSE date_part.form
                c5 == push_str(c4, DatePartText(date_part.name, form, val.v))
                c6 == IF date_part.name = "Year"
                      THEN render_year_suffix_implicitly(
                               IF val.v < 1000
                               THEN push_str(c5, IF val.v < 0 THEN <<"B", "C">>
                                                 ELSE <<"A", "D">>)
                               ELSE c5)
                      ELSE c5
                c7 == apply_suffix(c6, date_part.affixes, affix_loc)
                c8 == pop_case(stop_stripping_periods(c7), cidx)
            IN pop_format(c8, idx)

\* render_date_part with the era marker written up to the year 1000 included
render_date_part_EraUpTo1000(c, date_part, date, over_ride) ==
    LET val == DatePartValue(date_part, date)
    IN IF ~val.some THEN c
       ELSE LET idx == c.formats + 1
                c1 == push_format(c)
                affix_loc == AffixLoc(c1, date_part.affixes)
                c2 == apply_prefix(c1, date_part.affixes)
                c3 == IF date_part.name = "Month"
                      THEN may_strip_periods(c2, date_part.strip_periods)
                      ELSE c2
                cidx == c3.cases + 1
                c4 == push_case_of(c3, IF over_ride.some /\ over_ride.v.text_case.some
                                       THEN over_ride.v.text_case
                                       ELSE date_part.text_case)
                form == IF over_ride.some THEN over_ride.v.form ELSE date_part.form
                c5 == push_str(c4, DatePartText(date_part.name, form, val.v))
                c6 == IF date_part.name = "Year"
                      THEN render_year_suffix_implicitly(
                               IF val.v <= 1000
                               THEN push_str(c5, IF val.v < 0 THEN <<"B", "C">>
                                                 ELSE <<"A", "D">>)
                               ELSE c5)
                      ELSE c5
                c7 == apply_suffix(c6, date_part.affixes, affix_loc)
                c8 == pop_case(stop_stripping_periods(c7), cidx)
            IN pop_format(c8, idx)

\* lines 365-469
render_date_part(c, date_part, date, over_ride) ==
    LET val == DatePartValue(date_part, date)
    IN IF ~val.some THEN c
       ELSE LET idx == c.formats + 1
                c1 == push_format(c)
                affix_loc == AffixLoc(c1, date_part.affixes)
                c2 == apply_prefix(c1, date_part.affixes)
                c3 == IF date_part.name = "Month"
                      THEN may_strip_periods(c2, date_part.strip_periods)
                      ELSE c2
                cidx == c3.cases + 1
                c4 == push_case_of(c3, IF over_ride.some /\ over_ride.v.text_case.some
                                       THEN over_ride.v.text_case
                                       ELSE date_part.text_case)
                form == IF over_ride.some THEN over_ride.v.form ELSE date_part.form
                c5 == push_str(c4, DatePartText(date_part.name, form, val.v))
                c6 == IF date_part.name = "Year"
                      THEN render_year_suffix_implicitly(
                               IF val.v < 1000
                               THEN push_str(c5, IF val.v < 0 THEN <<"B", "C">>
                                                 ELSE <<"A", "D">>)
                               ELSE c5)
                      ELSE c5
                c7 == apply_suffix(c6, date_part.affixes, affix_loc)
                c8 == pop_case(stop_stripping_periods(c7), cidx)
            IN pop_format(c8, idx)

RECURSIVE DatePartsLoop(_, _, _, _, _, _, _)
\* lines 335-357: the loop over the parts, from part i on
DatePartsLoop(c, e, base, date, parts, i, last_was_empty) ==
    LET list == IF base.some THEN base.v.date_part ELSE e.date_part
    IN IF i > Len(list) THEN c
       ELSE LET part == list[i]
            IN IF \/ part.name = "Month" /\ ~has_month(parts)
                  \/ part.name = "Day" /\ ~has_day(parts)
               THEN DatePartsLoop(c, e, base, date, parts, i + 1, last_was_empty)
               ELSE LET cursor == Len(c.buf)
                        c1 == IF ~last_was_empty /\ e.delimiter.some
                              THEN push_str(c, e.delimiter.v)
                              ELSE c
                        over_ride == IF base.some
                                     THEN FindPart(e.date_part, part.name)
                                     ELSE None
                        c2 == render_date_part(c1, part, date, over_ride)
                    IN DatePartsLoop(c2, e, base, date, parts, i + 1,
                                     cursor = Len(c2.buf))

\* the sort key with the month and the day left zero-indexed
DateSortKey_ZeroIndexed(c, e, date) ==
    LET year == IF is_localized(e) THEN TRUE ELSE HasPart(e.date_part, "Year")
        month == IF is_localized(e)
                 THEN (~e.parts.some \/ e.parts.v \in {"YearMonth", "YearMonthDay"})
                 ELSE HasPart(e.date_part, "Month")
        day == IF is_localized(e)
               THEN (~e.parts.some \/ e.parts.v = "YearMonthDay")
               ELSE HasPart(e.date_part, "Day")
        c1 == IF year
              THEN render_year_suffix_implicitly(push_str(c, FmtIntPadded(date.year, 4)))
              ELSE c
        c2 == IF month
              THEN push_str(c1, FmtIntPadded(IF date.month.some
                                             THEN date.month.v ELSE 0, 2))
              ELSE c1
    IN IF day
       THEN push_str(c2, FmtIntPadded(IF date.day.some THEN date.day.v ELSE 0, 2))
       ELSE c2

\* lines 270-314: the sort key of a date
DateSortKey(c, e, date) ==
    LET year == IF is_localized(e) THEN TRUE ELSE HasPart(e.date_part, "Year")
        month == IF is_localized(e)
                 THEN (~e.parts.some \/ e.parts.v \in {"YearMonth", "YearMonthDay"})
                 ELSE HasPart(e.date_part, "Month")
        day == IF is_localized(e)
               THEN (~e.parts.some \/ e.parts.v = "YearMonthDay")
               ELSE HasPart(e.date_part, "Day")
        c1 == IF year
              THEN render_year_suffix_implicitly(push_str(c, FmtIntPadded(date.year, 4)))
              ELSE c
        c2 == IF month
              THEN push_str(c1, FmtIntPadded(IF date.month.some
                                             THEN date.month.v + 1 ELSE 0, 2))
              ELSE c1
    IN IF day
       THEN push_str(c2, FmtIntPadded(IF date.day.some THEN date.day.v + 1 ELSE 0, 2))
       ELSE c2

\* lines 261-363
\* Date.render with the mask of the localized base ignored at line 332
DateRender_OwnMask(c, e) ==
    IF AuthorOnly \/ ~e.variable.some THEN c
    ELSE LET date == resolve_date_variable(e.variable.v)
             c0 == NoteVariable(c, date.some)
         IN IF ~date.some THEN c0
            ELSE IF instance.sorting THEN DateSortKey(c0, e, date.v)
            ELSE LET base == IF e.form.some THEN localized_date(e.form.v) ELSE None
                 IN IF e.form.some /\ ~base.some THEN c0
                    ELSE LET depth == NextMark(c0)
                             c1 == push_elem(c0)
                             affix_loc == AffixLoc(c1, e.affixes)
                             c2 == apply_prefix(c1, e.affixes)
                             cidx == c2.cases + 1
                             c3 == push_case_of(c2, IF e.text_case.some THEN e.text_case
                                                    ELSE IF base.some THEN base.v.text_case
                                                    ELSE None)
                             parts == IF e.parts.some THEN e.parts.v
                                      ELSE "YearMonthDay"
                             c4 == DatePartsLoop(c3, e, base, date.v, parts, 1, TRUE)
                             c5 == pop_case(c4, cidx)
                             c6 == apply_suffix(c5, e.affixes, affix_loc)
                         IN commit_elem(c6, depth, Some("Date"))

\* Date.render, lines 261-363
DateRender(c, e) ==
    IF AuthorOnly \/ ~e.variable.some THEN c
    ELSE LET date == resolve_date_variable(e.variable.v)
             c0 == NoteVariable(c, date.some)
         IN IF ~date.some THEN c0
            ELSE IF instance.sorting THEN DateSortKey(c0, e, date.v)
            ELSE LET base == IF e.form.some THEN localized_date(e.form.v) ELSE None
                 IN IF e.form.some /\ ~base.some THEN c0
                    ELSE LET depth == NextMark(c0)
                             c1 == push_elem(c0)
                             affix_loc == AffixLoc(c1, e.affixes)
                             c2 == apply_prefix(c1, e.affixes)
                             cidx == c2.cases + 1
                             c3 == push_case_of(c2, IF e.text_case.some THEN e.text_case
                                                    ELSE IF base.some THEN base.v.text_case
                                                    ELSE None)
                             parts == IF e.parts.some THEN e.parts.v
                                      ELSE IF base.some /\ base.v.parts.some
                                      THEN base.v.parts.v
                                      ELSE "YearMonthDay"
                             c4 == DatePartsLoop(c3, e, base, date.v, parts, 1, TRUE)
                             c5 == pop_case(c4, cidx)
                             c6 == apply_suffix(c5, e.affixes, affix_loc)
                         IN commit_elem(c6, depth, Some("Date"))

(***************************************************************************)
(* Branch conditions of Choose  (mod.rs 550-777)                           *)
(* A condition variable is [vk, name] with vk one of Standard, Number,     *)
(* Date, Name.  An item of the flattened sequence carries the boolean and, *)
(* when the test called a variable resolver, what the resolver noted.      *)
(***************************************************************************)
IsBlank(str) == \A i \in 1..Len(str) : str[i] = " "

\* Numeric::from_str succeeds on a non-empty string of digits
ParsesAsNumeric(str) == str # EmptyStr /\ \A i \in 1..Len(str) : IsDigit(str[i])

Item(val) == [val |-> val, refs |-> FALSE, present |-> FALSE]

VarItem(val, present) == [val |-> val, refs |-> TRUE, present |-> present]

\* lines 641-652
IsNumericItem(var) ==
    CASE var.vk = "Standard" ->
            LET v == resolve_standard_variable(var.name)
            IN VarItem(v.some /\ ParsesAsNumeric(v.v), v.some)
      [] var.vk = "Number" ->
            LET v == resolve_number_variable(var.name)
            IN VarItem(v.some /\ v.v.typed, v.some)
      [] OTHER -> Item(FALSE)

\* lines 668-672
IsUncertainDateItem(var) ==
    LET d == resolve_date_variable(var.name)
    IN VarItem(d.some /\ d.v.approximate, d.some)

\* lines 688-696
LocatorItem(loc) == Item(instance.locator.some /\ instance.locator.v = loc)

\* lines 714-722
PositionItem(spec_pos) ==
    Item(CASE spec_pos = "First" -> instance.is_first
           [] spec_pos = "Subsequent" -> ~instance.is_first
           [] spec_pos = "Ibid" -> instance.ibid = "Ibid"
           [] spec_pos = "IbidWithLocator" -> instance.ibid = "IbidWithLocator"
           [] OTHER -> instance.is_near_note)

\* line 738
TypeItem(kind) == Item(entry.type = kind)

\* lines 753-770
VariableItem(var) ==
    LET v == entry[var.name]
    IN CASE var.vk = "Standard" -> VarItem(v.some /\ ~IsBlank(v.v), v.some)
         [] var.vk = "Name" -> VarItem(v # << >>, v # << >>)
         [] OTHER -> VarItem(v.some, v.some)

\* one field of the branch: one item per listed value, nothing when absent
FieldItem(pos, x) ==
    CASE pos = "IsNumeric" -> IsNumericItem(x)
      [] pos = "IsUncertainDate" -> IsUncertainDateItem(x)
      [] pos = "Locator" -> LocatorItem(x)
      [] pos = "Position" -> PositionItem(x)
      [] pos = "Type" -> TypeItem(x)
      [] OTHER -> VariableItem(x)

FieldItems(field, pos) ==
    IF field.some THEN [i \in 1..Len(field.v) |-> FieldItem(pos, field.v[i])]
    ELSE << >>

\* BranchConditionPos::next, lines 561-593; Variable is the last position
PosNext(pos) ==
    CASE pos = "Disambiguate" -> "IsNumeric"
      [] pos = "IsNumeric" -> "IsUncertainDate"
      [] pos = "IsUncertainDate" -> "Locator"
      [] pos = "Locator" -> "Position"
      [] pos = "Position" -> "Type"
      [] OTHER -> "Variable"

\* lines 602-609: the iterator is [pos, idx]
from_branch == [pos |-> "Disambiguate", idx |-> 0]

\* next_case that leaves idx where the last field left it
next_case_KeepIdx(it) == [it EXCEPT !.pos = PosNext(it.pos)]

\* lines 612-615
next_case(it) == [pos |-> PosNext(it.pos), idx |-> 0]

\* the list field of the branch the position reads
CondField(cond, pos) ==
    CASE pos = "IsNumeric" -> cond.is_numeric
      [] pos = "IsUncertainDate" -> cond.is_uncertain_date
      [] pos = "Locator" -> cond.locator
      [] pos = "Position" -> cond.position
      [] pos = "Type" -> cond.type_
      [] OTHER -> cond.variable

RECURSIVE IterNext(_, _)
\* Iterator::next, lines 621-776: the item it returns, None at the end of
\* the sequence, and the iterator afterwards
IterNext(cond, it) ==
    IF it.pos = "Disambiguate"
    THEN LET it1 == [it EXCEPT !.pos = PosNext(it.pos)]
         IN IF cond.disambiguate.some
            THEN [item |-> Some(Item(cond.disambiguate.v = instance.disambiguate)),
                  it |-> it1]
            ELSE IterNext(cond, it1)
    ELSE LET field == CondField(cond, it.pos)
         IN IF field.some /\ it.idx < Len(field.v)
            THEN [item |-> Some(FieldItem(it.pos, field.v[it.idx + 1])),
                  it |-> [it EXCEPT !.idx = @ + 1]]
            ELSE IF it.pos = "Variable" THEN [item |-> None, it |-> it]
            ELSE IterNext(cond, next_case(it))

RECURSIVE IterCollect(_, _)
\* the items next returns from it on, up to the first None
IterCollect(cond, it) ==
    LET r == IterNext(cond, it)
    IN IF r.item.some THEN <<r.item.v>> \o IterCollect(cond, r.it) ELSE << >>

\* the whole sequence BranchConditionIter yields
BranchConditionIter(cond) == IterCollect(cond, from_branch)

\* ChooseMatch::test: Iterator::all / any over the sequence
MatchTest(match_, items) ==
    CASE match_ = "All" -> \A i \in 1..Len(items) : items[i].val
      [] match_ = "Any" -> \E i \in 1..Len(items) : items[i].val
      [] OTHER -> \A i \in 1..Len(items) : ~items[i].val

\* how many items all / any pull from the iterator before they stop
Consumed(match_, items) ==
    LET stops(i) == IF match_ = "All" THEN ~items[i].val ELSE items[i].val
    IN IF \E i \in 1..Len(items) : stops(i)
       THEN CHOOSE i \in 1..Len(items) :
                stops(i) /\ \A j \in 1..(i - 1) : ~stops(j)
       ELSE Len(items)

RECURSIVE NoteItems(_, _, _)
\* the usage notes of the first k tests
NoteItems(c, items, k) ==
    IF k = 0 THEN c
    ELSE LET c1 == NoteItems(c, items, k - 1)
         IN IF items[k].refs THEN NoteVariable(c1, items[k].present) ELSE c1

BranchMatches(branch) == MatchTest(branch.match_, BranchConditionIter(branch))

BranchTestCtx(c, branch) ==
    LET items == BranchConditionIter(branch)
    IN NoteItems(c, items, Consumed(branch.match_, items))

(***************************************************************************)
(* The interpreter.  stack holds the frames of the render calls in         *)
(* progress, the innermost last.  A Call frame is a render call about to   *)
(* be dispatched on the element kind (lines 805-817).  ev records what the *)
(* last step did.  The fields base, outs, pos_buf, loc_buf, idx_buf and    *)
(* entry_buf of the frames are history: the buffer as it was when a region *)
(* was opened and the output each child left, kept to state the            *)
(* properties.                                                             *)
(***************************************************************************)
Top == stack[Len(stack)]

Pop == SubSeq(stack, 1, Len(stack) - 1)

Replace(frame) == Append(Pop, frame)

Call(e) == [f |-> "Call", e |-> e]

Calling(kind) == stack # << >> /\ Top.f = "Call" /\ Top.e.kind = kind

In(f) == stack # << >> /\ Top.f = f

Inputs == <<style, entry, instance>>

\* the variables of the span utility, which no renderer touches
Spans == <<span, span_op>>

\* the frame of a render_with_delimiter call on entry (lines 504-505)
RWDFrame(children, delimiter, c) ==
    [f |-> "RWD", children |-> children, delimiter |-> delimiter, i |-> 1,
     last_empty |-> TRUE, loc |-> 0, pos |-> 0, pc |-> "loop",
     base |-> c.buf, outs |-> << >>, pos_buf |-> EmptyStr, loc_buf |-> EmptyStr,
     suppressed |-> << >>, loc_i |-> 0]

\* Layout.render, lines 819-827
LayoutRender ==
    /\ Calling("Layout")
    /\ ctx' = push_format(ctx)
    /\ stack' = Replace([f |-> "Layout", elements |-> Top.e.elements,
                         i |-> 1, fidx |-> ctx.formats + 1])
    /\ ev' = [op |-> "LayoutRender"]
    /\ UNCHANGED <<Inputs, Spans>>

LayoutNext ==
    /\ In("Layout") /\ Top.i <= Len(Top.elements)
    /\ stack' = Append(Replace([Top EXCEPT !.i = @ + 1]), Call(Top.elements[Top.i]))
    /\ ev' = [op |-> "LayoutNext"]
    /\ UNCHANGED <<Inputs, ctx, Spans>>

LayoutReturn ==
    /\ In("Layout") /\ Top.i > Len(Top.elements)
    /\ ctx' = pop_format(ctx, Top.fidx)
    /\ stack' = Pop
    /\ ev' = [op |-> "LayoutReturn"]
    /\ UNCHANGED <<Inputs, Spans>>

\* Text.render with any target but an existing macro, lines 30-131
RenderText ==
    /\ Calling("Text")
    /\ ~(IsMacroTarget(Top.e) /\ ResolveTextTarget(Top.e).some)
    /\ ctx' = TextRender(ctx, Top.e)
    /\ stack' = Pop
    /\ ev' = [op |-> "RenderText", e |-> Top.e, before |-> ctx]
    /\ UNCHANGED <<Inputs, Spans>>

\* RenderTextMacro that takes the length of line 102 before the prefix is
\* written
RenderTextMacro_LenBeforePrefix ==
    /\ Calling("Text")
    /\ IsMacroTarget(Top.e) /\ ResolveTextTarget(Top.e).some
    /\ ctx' = TextOpen(ctx, Top.e)
    /\ stack' = Replace([f |-> "Macro", e |-> Top.e,
                         children |-> ResolveTextTarget(Top.e).v, i |-> 1,
                         depth |-> NextMark(ctx),
                         affix_loc |-> AffixLoc(push_elem(ctx), Top.e.affixes),
                         cidx |-> ctx.cases + 1,
                         len |-> Len(ctx.buf), entry_buf |-> ctx.buf,
                         body_buf |-> ctx'.buf])
    /\ ev' = [op |-> "RenderTextMacro"]
    /\ UNCHANGED <<Inputs, Spans>>

\* Text.render with a macro target, up to the loop of line 104
RenderTextMacro ==
    /\ Calling("Text")
    /\ IsMacroTarget(Top.e) /\ ResolveTextTarget(Top.e).some
    /\ ctx' = TextOpen(ctx, Top.e)
    /\ stack' = Replace([f |-> "Macro", e |-> Top.e,
                         children |-> ResolveTextTarget(Top.e).v, i |-> 1,
                         depth |-> NextMark(ctx),
                         affix_loc |-> AffixLoc(push_elem(ctx), Top.e.affixes),
                         cidx |-> ctx.cases + 1,
                         len |-> Len(ctx'.buf), entry_buf |-> ctx.buf,
                         body_buf |-> ctx'.buf])
    /\ ev' = [op |-> "RenderTextMacro"]
    /\ UNCHANGED <<Inputs, Spans>>

\* lines 104-106
MacroNext ==
    /\ In("Macro") /\ Top.i <= Len(Top.children)
    /\ stack' = Append(Replace([Top EXCEPT !.i = @ + 1]), Call(Top.children[Top.i]))
    /\ ev' = [op |-> "MacroNext"]
    /\ UNCHANGED <<Inputs, ctx, Spans>>

\* lines 108-129
MacroReturn ==
    /\ In("Macro") /\ Top.i > Len(Top.children)
    /\ LET c1 == IF Top.len < Len(ctx.buf) THEN printed_non_empty_macro(ctx) ELSE ctx
       IN ctx' = TextClose(c1, Top.e, Top.depth, Top.affix_loc, Top.cidx)
    /\ stack' = Pop
    /\ ev' = [op |-> "MacroReturn", e |-> Top.e, printed |-> Top.len < Len(ctx.buf),
              opened |-> Top.entry_buf, before |-> ctx, body |-> Top.body_buf]
    /\ UNCHANGED <<Inputs, Spans>>

RenderNumber ==
    /\ Calling("Number")
    /\ ctx' = NumberRender(ctx, Top.e)
    /\ stack' = Pop
    /\ ev' = [op |-> "RenderNumber", e |-> Top.e, before |-> ctx]
    /\ UNCHANGED <<Inputs, Spans>>

RenderLabel ==
    /\ Calling("Label")
    /\ ctx' = LabelRender(ctx, Top.e)
    /\ stack' = Pop
    /\ ev' = [op |-> "RenderLabel", e |-> Top.e, before |-> ctx]
    /\ UNCHANGED <<Inputs, Spans>>

RenderDate ==
    /\ Calling("Date")
    /\ ctx' = DateRender(ctx, Top.e)
    /\ stack' = Pop
    /\ ev' = [op |-> "RenderDate", e |-> Top.e, before |-> ctx]
    /\ UNCHANGED <<Inputs, Spans>>

\* Choose.render, lines 484-497: entry
RenderChoose ==
    /\ Calling("Choose")
    /\ stack' = Replace([f |-> "Choose", e |-> Top.e, b |-> 1,
                         entry_ctx |-> ctx])
    /\ ev' = [op |-> "RenderChoose"]
    /\ UNCHANGED <<Inputs, ctx, Spans>>

\* ChooseTest that stays on the branch that did not match
ChooseTest_NoAdvance ==
    /\ In("Choose") /\ Top.b <= Len(Top.e.branches)
    /\ LET branch == Top.e.branches[Top.b]
           matched == BranchMatches(branch)
       IN /\ ctx' = BranchTestCtx(ctx, branch)
          /\ stack' = IF matched
                      THEN Replace(RWDFrame(branch.children, Top.e.delimiter, ctx'))
                      ELSE stack
          /\ ev' = [op |-> "ChooseTest", e |-> Top.e, b |-> Top.b,
                    matched |-> matched]
    /\ UNCHANGED <<Inputs, Spans>>

\* ChooseTest without the return of line 489: after the matched branch has
\* rendered, the next branch is tested
ChooseTest_NoReturn ==
    /\ In("Choose") /\ Top.b <= Len(Top.e.branches)
    /\ LET branch == Top.e.branches[Top.b]
           matched == BranchMatches(branch)
       IN /\ ctx' = BranchTestCtx(ctx, branch)
          /\ stack' = IF matched
                      THEN Append(Replace([Top EXCEPT !.b = @ + 1]),
                                  RWDFrame(branch.children, Top.e.delimiter, ctx'))
                      ELSE Replace([Top EXCEPT !.b = @ + 1])
          /\ ev' = [op |-> "ChooseTest", e |-> Top.e, b |-> Top.b,
                    matched |-> matched]
    /\ UNCHANGED <<Inputs, Spans>>

\* lines 486-491: the test of one branch; on a match its children are
\* rendered and Choose returns
ChooseTest ==
    /\ In("Choose") /\ Top.b <= Len(Top.e.branches)
    /\ LET branch == Top.e.branches[Top.b]
           matched == BranchMatches(branch)
       IN /\ ctx' = BranchTestCtx(ctx, branch)
          /\ stack' = IF matched
                      THEN Replace(RWDFrame(branch.children, Top.e.delimiter, ctx'))
                      ELSE Replace([Top EXCEPT !.b = @ + 1])
          /\ ev' = [op |-> "ChooseTest", e |-> Top.e, b |-> Top.b,
                    matched |-> matched]
    /\ UNCHANGED <<Inputs, Spans>>

\* ChooseOtherwise that joins the otherwise-branch without the delimiter
ChooseOtherwise_NoDelimiter ==
    /\ In("Choose") /\ Top.b > Len(Top.e.branches)
    /\ Top.e.otherwise.some
    /\ stack' = Replace(RWDFrame(Top.e.otherwise.v.children, None, ctx))
    /\ ev' = [op |-> "ChooseOtherwise", e |-> Top.e]
    /\ UNCHANGED <<Inputs, ctx, Spans>>

\* lines 493-495: no branch matched and there is an otherwise-branch
ChooseOtherwise ==
    /\ In("Choose") /\ Top.b > Len(Top.e.branches)
    /\ Top.e.otherwise.some
    /\ stack' = Replace(RWDFrame(Top.e.otherwise.v.children, Top.e.delimiter, ctx))
    /\ ev' = [op |-> "ChooseOtherwise", e |-> Top.e]
    /\ UNCHANGED <<Inputs, ctx, Spans>>

\* line 496: no branch matched and there is no otherwise-branch
ChooseReturn ==
    /\ In("Choose") /\ Top.b > Len(Top.e.branches)
    /\ ~Top.e.otherwise.some
    /\ stack' = Pop
    /\ ev' = [op |-> "ChooseReturn", e |-> Top.e, entry_ctx |-> Top.entry_ctx]
    /\ UNCHANGED <<Inputs, ctx, Spans>>

\* render_with_delimiter, lines 507-531: the delimiter before the child,
\* the child's region, and the call of the child's renderer
RWDNext ==
    /\ In("RWD") /\ Top.pc = "loop" /\ Top.i <= Len(Top.children)
    /\ LET delim == ~Top.last_empty /\ Top.delimiter.some
           c1 == IF delim /\ Top.loc # 0 THEN commit_elem(ctx, Top.loc, None) ELSE ctx
           c2 == IF delim THEN push_str(push_elem(c1), Top.delimiter.v) ELSE ctx
       IN /\ ctx' = push_elem(c2)
          /\ stack' = Append(Replace([Top EXCEPT
                                        !.loc = IF delim THEN NextMark(c1) ELSE @,
                                        !.loc_buf = IF delim THEN c1.buf ELSE @,
                                        !.loc_i = IF delim THEN Top.i ELSE @,
                                        !.pos = NextMark(c2),
                                        !.pos_buf = c2.buf,
                                        !.pc = "child"]),
                             Call(Top.children[Top.i]))
          /\ ev' = [op |-> "RWDNext", delim |-> delim]
    /\ UNCHANGED <<Inputs, Spans>>

\* RWDChildDone that commits the region of the child whatever it holds
RWDChildDone_AlwaysCommit ==
    /\ In("RWD") /\ Top.pc = "child"
    /\ LET last_empty == last_is_empty(ctx)
       IN /\ ctx' = commit_elem(ctx, Top.pos, None)
          /\ stack' = Replace([Top EXCEPT
                                 !.last_empty = last_empty,
                                 !.i = @ + 1,
                                 !.pc = "loop",
                                 !.outs = Append(@, SubSeq(ctx.buf,
                                                Len(Top.pos_buf) + 1, Len(ctx.buf))),
                                 !.suppressed = Append(@,
                                     /\ Top.children[Top.i].kind = "Group"
                                     /\ ev.op = "GroupReturn" /\ ev.discarded)])
          /\ ev' = [op |-> "RWDChildDone", mark |-> Top.pos,
                    opened |-> Top.pos_buf, before |-> ctx.buf,
                    child |-> Top.children[Top.i], prev |-> ev]
    /\ UNCHANGED <<Inputs, Spans>>

\* lines 533-538: the child has returned
RWDChildDone ==
    /\ In("RWD") /\ Top.pc = "child"
    /\ LET last_empty == last_is_empty(ctx)
       IN /\ ctx' = IF last_empty THEN discard_elem(ctx, Top.pos)
                    ELSE commit_elem(ctx, Top.pos, None)
          /\ stack' = Replace([Top EXCEPT
                                 !.last_empty = last_empty,
                                 !.i = @ + 1,
                                 !.pc = "loop",
                                 !.outs = Append(@, SubSeq(ctx.buf,
                                                Len(Top.pos_buf) + 1, Len(ctx.buf))),
                                 !.suppressed = Append(@,
                                     /\ Top.children[Top.i].kind = "Group"
                                     /\ ev.op = "GroupReturn" /\ ev.discarded)])
          /\ ev' = [op |-> "RWDChildDone", mark |-> Top.pos,
                    opened |-> Top.pos_buf, before |-> ctx.buf,
                    child |-> Top.children[Top.i], prev |-> ev]
    /\ UNCHANGED <<Inputs, Spans>>

\* RWDReturn with the pending delimiter kept whatever the last child gave
RWDReturn_KeepDelimiter ==
    /\ In("RWD") /\ Top.pc = "loop" /\ Top.i > Len(Top.children)
    /\ ctx' = IF Top.loc # 0 THEN commit_elem(ctx, Top.loc, None) ELSE ctx
    /\ stack' = Pop
    /\ ev' = [op |-> "RWDReturn", mark |-> Top.loc, last_empty |-> Top.last_empty,
              opened |-> Top.loc_buf, before |-> ctx.buf, base |-> Top.base,
              outs |-> Top.outs, delimiter |-> Top.delimiter,
              suppressed |-> Top.suppressed, loc_i |-> Top.loc_i]
    /\ UNCHANGED <<Inputs, Spans>>

\* RWDReturn that discards the pending delimiter whatever the last child gave
RWDReturn_DiscardAlways ==
    /\ In("RWD") /\ Top.pc = "loop" /\ Top.i > Len(Top.children)
    /\ ctx' = IF Top.loc # 0
              THEN discard_elem(ctx, Top.loc)
              ELSE ctx
    /\ stack' = Pop
    /\ ev' = [op |-> "RWDReturn", mark |-> Top.loc, last_empty |-> Top.last_empty,
              opened |-> Top.loc_buf, before |-> ctx.buf, base |-> Top.base,
              outs |-> Top.outs, delimiter |-> Top.delimiter,
              suppressed |-> Top.suppressed, loc_i |-> Top.loc_i]
    /\ UNCHANGED <<Inputs, Spans>>

\* lines 541-547: after the loop
RWDReturn ==
    /\ In("RWD") /\ Top.pc = "loop" /\ Top.i > Len(Top.children)
    /\ ctx' = IF Top.loc # 0
              THEN IF Top.last_empty THEN discard_elem(ctx, Top.loc)
                   ELSE commit_elem(ctx, Top.loc, None)
              ELSE ctx
    /\ stack' = Pop
    /\ ev' = [op |-> "RWDReturn", mark |-> Top.loc, last_empty |-> Top.last_empty,
              opened |-> Top.loc_buf, before |-> ctx.buf, base |-> Top.base,
              outs |-> Top.outs, delimiter |-> Top.delimiter,
              suppressed |-> Top.suppressed, loc_i |-> Top.loc_i]
    /\ UNCHANGED <<Inputs, Spans>>

\* RenderGroup with lines 782 and 785 swapped: the prefix is written before
\* the region of the group is opened
RenderGroup_PrefixFirst ==
    /\ Calling("Group")
    /\ LET c1 == push_usage_info(ctx)
           c2 == apply_prefix(c1, Top.e.affixes)
       IN /\ ctx' = push_elem(c2)
          /\ stack' = Append(Replace([f |-> "Group", e |-> Top.e,
                                      info |-> Len(c1.usage), idx |-> NextMark(c2),
                                      affix_loc |-> AffixLoc(c1, Top.e.affixes),
                                      idx_buf |-> ctx.buf]),
                             RWDFrame(Top.e.children, Top.e.delimiter, ctx'))
    /\ ev' = [op |-> "RenderGroup"]
    /\ UNCHANGED <<Inputs, Spans>>

\* Group.render, lines 779-787: up to the call of render_with_delimiter
RenderGroup ==
    /\ Calling("Group")
    /\ LET c1 == push_usage_info(ctx)
           c2 == push_elem(c1)
       IN /\ ctx' = apply_prefix(c2, Top.e.affixes)
          /\ stack' = Append(Replace([f |-> "Group", e |-> Top.e,
                                      info |-> Len(c1.usage), idx |-> NextMark(c1),
                                      affix_loc |-> AffixLoc(c2, Top.e.affixes),
                                      idx_buf |-> ctx.buf]),
                             RWDFrame(Top.e.children, Top.e.delimiter, ctx'))
    /\ ev' = [op |-> "RenderGroup"]
    /\ UNCHANGED <<Inputs, Spans>>

\* the suppression rule without the test of the macros
GroupSuppressed_NoMacros(info) ==
    /\ info.has_vars
    /\ ~info.has_non_empty_vars /\ ~info.has_non_empty_group

\* the suppression rule without the test that a variable was referenced
GroupSuppressed_NoHasVars(info) ==
    ~info.has_non_empty_vars /\ ~info.has_used_macros /\ ~info.has_non_empty_group

\* the suppression rule of lines 792-795
GroupSuppressed(info) ==
    /\ info.has_vars
    /\ ~info.has_non_empty_vars /\ ~info.has_used_macros /\ ~info.has_non_empty_group

\* GroupReturn that reports the group to the enclosing usage info whether it
\* was committed or discarded
GroupReturn_ReportAlways ==
    /\ In("Group")
    /\ LET c1 == apply_suffix(ctx, Top.e.affixes, Top.affix_loc)
           info == PoppedUsageInfo(c1, Top.info)
           c2 == pop_usage_info(c1, Top.info)
       IN /\ ctx' = IF GroupSuppressed(info) THEN printed_non_empty_group(discard_elem(c2, Top.idx))
                    ELSE printed_non_empty_group(commit_elem(c2, Top.idx, None))
          /\ ev' = [op |-> "GroupReturn", e |-> Top.e, info |-> info,
                    mark |-> Top.idx, outs |-> ev.outs,
                    opened |-> Top.idx_buf, before |-> c1.buf,
                    suppressed |-> ev.suppressed,
                    discarded |-> ctx'.last_op = [op |-> "discard", mark |-> Top.idx],
                    usage_before |-> ctx.usage]
    /\ stack' = Pop
    /\ UNCHANGED <<Inputs, Spans>>

\* lines 789-802
GroupReturn ==
    /\ In("Group")
    /\ LET c1 == apply_suffix(ctx, Top.e.affixes, Top.affix_loc)
           info == PoppedUsageInfo(c1, Top.info)
           c2 == pop_usage_info(c1, Top.info)
       IN /\ ctx' = IF GroupSuppressed(info) THEN discard_elem(c2, Top.idx)
                    ELSE printed_non_empty_group(commit_elem(c2, Top.idx, None))
          /\ ev' = [op |-> "GroupReturn", e |-> Top.e, info |-> info,
                    mark |-> Top.idx, outs |-> ev.outs,
                    opened |-> Top.idx_buf, before |-> c1.buf,
                    suppressed |-> ev.suppressed,
                    discarded |-> ctx'.last_op = [op |-> "discard", mark |-> Top.idx],
                    usage_before |-> ctx.usage]
    /\ stack' = Pop
    /\ UNCHANGED <<Inputs, Spans>>

(***************************************************************************)
(* Styles, entries and cite instances the model renders                    *)
(***************************************************************************)
NoAffixes == [prefix |-> None, suffix |-> None]

Affixes(prefix, suffix) == [prefix |-> Some(prefix), suffix |-> Some(suffix)]

Text(target, affixes) ==
    [kind |-> "Text", target |-> target, affixes |-> affixes,
     quotes |-> FALSE, strip_periods |-> FALSE]

Value(val) == [t |-> "Value", val |-> val]

Variable(vk, name) == [t |-> "Variable", vk |-> vk, name |-> name]

Macro(name) == [t |-> "Macro", name |-> name]

Number(variable, affixes) ==
    [kind |-> "Number", variable |-> variable, form |-> "Numeric", affixes |-> affixes]

Label(variable, plural) ==
    [kind |-> "Label", variable |-> variable,
     label |-> [plural |-> plural, affixes |-> Affixes(<<" ">>, <<":">>),
                strip_periods |-> FALSE]]

Group(children, delimiter, affixes) ==
    [kind |-> "Group", children |-> children, delimiter |-> delimiter,
     affixes |-> affixes]

Choose(branches, otherwise, delimiter) ==
    [kind |-> "Choose", branches |-> branches, otherwise |-> otherwise,
     delimiter |-> delimiter]

Layout(elements) == [kind |-> "Layout", elements |-> elements]

Term(name, plural) == [t |-> "Term", name |-> name, plural |-> plural]

DatePart(name, form, affixes) ==
    [name |-> name, form |-> form, affixes |-> affixes, strip_periods |-> FALSE,
     text_case |-> None]

Date(variable, form, parts, date_part, delimiter, affixes) ==
    [kind |-> "Date", variable |-> variable, form |-> form, parts |-> parts,
     date_part |-> date_part, delimiter |-> delimiter, affixes |-> affixes,
     text_case |-> None]

Typed(n, hi) == [typed |-> TRUE, n |-> n, hi |-> hi, s |-> EmptyStr]

Untyped(str) == [typed |-> FALSE, n |-> 0, hi |-> None, s |-> str]

DateValue(year, month, day) ==
    [year |-> year, month |-> month, day |-> day, approximate |-> FALSE]

\* a branch that tests the presence of variables
IfVariable(match_, names, children) ==
    [match_ |-> match_, disambiguate |-> None, is_numeric |-> None,
     is_uncertain_date |-> None, locator |-> None, position |-> None,
     type_ |-> None, variable |-> Some(names), children |-> children]

Else(children) == [children |-> children]

SeqsUpTo(S, n) == UNION {[1..k -> S] : k \in 0..n}

BaseStyle ==
    [layout |-> Layout(<< >>),
     macros |-> [m |-> <<Text(Variable("Standard", "note"), Affixes(<<"#">>, <<"#">>))>>,
                 z |-> <<Text(Value(<<"Z">>), NoAffixes)>>,
                 n |-> <<Text(Value(<<"N">>), NoAffixes), Text(Macro("z"), NoAffixes)>>],
     terms |-> [page |-> [single |-> <<"p", ".">>, multiple |-> <<"p", "p", ".">>]],
     dates |-> [none |-> 0],
     month_terms |-> TRUE,
     year_suffix_implicit |-> FALSE,
     limit_day_ordinals_to_day_1 |-> FALSE]

BaseEntry ==
    [type |-> "book", title |-> None, note |-> None, year_suffix |-> None,
     page |-> None, citation_number |-> None, issued |-> None, author |-> << >>]

BaseInstance ==
    [sorting |-> FALSE, kind |-> "None", disambiguate |-> FALSE, locator |-> None,
     is_first |-> TRUE, is_near_note |-> FALSE, ibid |-> "No"]

Scenario(s, e, i) == style = s /\ entry = e /\ instance = i

\* children joined by a delimiter inside a group: a literal, an affixed
\* variable, two macros, a decorative group, an affixed group with empty
\* content, a group with a variable
GroupPool ==
    {Text(Value(<<"A">>), NoAffixes),
     Text(Variable("Standard", "title"), Affixes(<<"(">>, <<")">>)),
     Text(Macro("m"), Affixes(<<"<">>, <<">">>)),
     Text(Macro("z"), NoAffixes),
     Group(<<Text(Value(<<"L">>), NoAffixes),
             Text(Value(EmptyStr), Affixes(<<"[">>, <<"]">>))>>, None, NoAffixes),
     Group(<<Text(Value(EmptyStr), NoAffixes)>>, None, Affixes(<<"/">>, <<"/">>)),
     Group(<<Text(Value(<<"K">>), NoAffixes),
             Text(Variable("Standard", "note"), NoAffixes)>>,
           Some(<<";">>), Affixes(<<"{">>, <<"}">>))}

GroupScenarios ==
    \E <<children, delimiter, title, note>> \in
            SeqsUpTo(GroupPool, MaxChildren) \X {None, Some(<<",", " ">>)}
            \X {None, Some(<<"T">>)} \X {None, Some(<<"n">>)} :
        Scenario([BaseStyle EXCEPT !.layout =
                   Layout(<<Text(Value(<<"^">>), NoAffixes),
                            Group(children, delimiter, NoAffixes)>>)],
              [BaseEntry EXCEPT !.title = title, !.note = note],
              BaseInstance)

\* branches of a Choose: variable tests under the three match policies and
\* a test of the entry type and the disambiguation verdict
BranchPool ==
    {IfVariable("All", <<[vk |-> "Standard", name |-> "title"],
                         [vk |-> "Standard", name |-> "note"]>>,
                <<Text(Value(<<"1">>), NoAffixes),
                  Text(Variable("Standard", "title"), NoAffixes)>>),
     IfVariable("Any", <<[vk |-> "Standard", name |-> "title"],
                         [vk |-> "Standard", name |-> "note"]>>,
                <<Text(Value(<<"2">>), NoAffixes)>>),
     IfVariable("None", <<[vk |-> "Standard", name |-> "title"]>>,
                <<Text(Value(<<"3">>), NoAffixes),
                  Text(Variable("Standard", "note"), NoAffixes)>>),
     [IfVariable("All", << >>, <<Text(Value(<<"4">>), NoAffixes)>>)
        EXCEPT !.variable = None, !.type_ = Some(<<"book">>),
               !.disambiguate = Some(TRUE)]}

ChooseScenarios ==
    \E <<branches, otherwise, title, note, disambiguate>> \in
            SeqsUpTo(BranchPool, MaxBranches)
            \X {None, Some(Else(<<Text(Value(<<"O">>), NoAffixes),
                                  Text(Variable("Standard", "title"), NoAffixes),
                                  Text(Value(<<"P">>), NoAffixes)>>))}
            \X {None, Some(<<"T">>)} \X {None, Some(<<"n">>)} \X BOOLEAN :
        Scenario([BaseStyle EXCEPT !.layout =
                   Layout(<<Group(<<Text(Value(<<"A">>), NoAffixes),
                                    Choose(branches, otherwise, Some(<<"+">>))>>,
                                  Some(<<",">>), NoAffixes)>>)],
              [BaseEntry EXCEPT !.title = title, !.note = note],
              [BaseInstance EXCEPT !.disambiguate = disambiguate])

\* the leaf renderers, with sources that are present and absent
LeafPool ==
    {Text(Variable("Standard", "title"), Affixes(<<"(">>, <<")">>)),
     Text(Variable("Number", "page"), Affixes(<<"(">>, <<")">>)),
     Text(Variable("Date", "issued"), NoAffixes),
     Text(Term("page", FALSE), NoAffixes),
     Text(Term("et-al", FALSE), Affixes(<<" ">>, EmptyStr)),
     Text(Macro("undefined"), Affixes(<<"<">>, <<">">>)),
     Text(Macro("z"), Affixes(<<"<">>, <<">">>)),
     Text(Macro("n"), NoAffixes),
     Number("page", Affixes(<<"p">>, <<".">>)),
     Number("citation_number", NoAffixes),
     Label("page", "Contextual"),
     Label("citation_number", "Always"),
     Date(Some("issued"), None, None, <<DatePart("Year", "Long", NoAffixes)>>,
          None, Affixes(<<"(">>, <<")">>)),
     Date(None, None, None, <<DatePart("Year", "Long", NoAffixes)>>, None, NoAffixes)}

LeafScenarios ==
    \E <<leaf, grouped, present, page, sorting, kind>> \in
            LeafPool \X BOOLEAN \X BOOLEAN
            \X {None, Some(Typed(5, None)), Some(Typed(5, Some(8))),
                Some(Untyped(<<"i", "v">>))}
            \X BOOLEAN \X {"None", "AuthorOnly"} :
        Scenario([BaseStyle EXCEPT !.layout =
                   IF grouped
                   THEN Layout(<<Group(<<Text(Value(<<"A">>), NoAffixes), leaf>>,
                                       Some(<<",">>), NoAffixes)>>)
                   ELSE Layout(<<Text(Value(<<"^">>), NoAffixes), leaf>>)],
              [BaseEntry EXCEPT !.title = IF present THEN Some(<<"T">>) ELSE None,
                                !.page = page,
                                !.citation_number =
                                    IF present THEN Some(Typed(7, None)) ELSE None,
                                !.issued = IF present
                                           THEN Some(DateValue(2020, Some(0), Some(14)))
                                           ELSE None],
              [BaseInstance EXCEPT !.sorting = sorting, !.kind = kind])

PartYear == DatePart("Year", "Long", NoAffixes)

PartMonth == DatePart("Month", "NumericLeadingZeros", NoAffixes)

PartDay == DatePart("Day", "Numeric", Affixes(<<"d">>, EmptyStr))

\* explicit part lists of a date
PartLists ==
    {<<PartYear>>, <<PartYear, PartMonth>>, <<PartYear, PartMonth, PartDay>>,
     <<PartMonth, PartDay, PartYear>>, <<PartDay, PartMonth, PartYear>>,
     <<PartMonth, PartYear>>, <<PartMonth, PartDay>>,
     <<DatePart("Day", "Ordinal", NoAffixes), DatePart("Month", "Long", NoAffixes),
       DatePart("Year", "Short", NoAffixes)>>}

\* the locale's numeric date form
NumericDateForm ==
    Date(None, None, None, <<PartMonth, PartDay, PartYear>>, Some(<<"/">>), NoAffixes)

DatePool ==
    {Date(Some("issued"), None, None, date_part, delimiter, Affixes(<<"(">>, <<")">>)) :
        <<date_part, delimiter>> \in PartLists \X {None, Some(<<"-">>)}}
    \cup
    {Date(Some("issued"), Some("numeric"), parts, date_part, delimiter, NoAffixes) :
        <<parts, date_part, delimiter>> \in
            {None, Some("Year"), Some("YearMonth"), Some("YearMonthDay")}
            \X {<< >>, <<DatePart("Month", "Long", NoAffixes)>>}
            \X {None, Some(<<"-">>)}}
    \cup
    {Date(Some("issued"), Some("text"), None, << >>, None, NoAffixes)}

DateValues ==
    {None} \cup
    {Some(DateValue(year, month, day)) :
        <<year, month, day>> \in
            {-44, 44, 2020} \X {None, Some(0), Some(11)} \X {None, Some(0), Some(14)}}

DateScenarios ==
    \E <<date, issued, implicit, sorting>> \in
            DatePool \X DateValues \X BOOLEAN \X BOOLEAN :
        Scenario([BaseStyle EXCEPT !.layout = Layout(<<Text(Value(<<"^">>), NoAffixes),
                                                    date>>),
                                !.dates = [numeric |-> NumericDateForm],
                                !.year_suffix_implicit = implicit],
              [BaseEntry EXCEPT !.issued = issued, !.year_suffix = Some(<<"a">>)],
              [BaseInstance EXCEPT !.sorting = sorting])

\* single parts of a date: days in ordinal and numeric form, years in long
\* and short form
SinglePartPool ==
    {DatePart("Day", "Ordinal", NoAffixes), DatePart("Day", "Numeric", NoAffixes),
     DatePart("Year", "Long", NoAffixes), DatePart("Year", "Short", NoAffixes)}

SinglePartDates ==
    {DateValue(year, None, None) : year \in {-144, -44, -1, 0, 44, 999, 1000, 2020}}
    \cup {DateValue(2020, Some(0), Some(day)) : day \in {0, 1, 2, 10, 11, 20}}

SinglePartScenarios ==
    \E <<part, issued, limit, implicit>> \in
            SinglePartPool \X SinglePartDates \X BOOLEAN \X BOOLEAN :
        Scenario([BaseStyle EXCEPT !.layout =
                   Layout(<<Text(Value(<<"^">>), NoAffixes),
                            Date(Some("issued"), None, None, <<part>>, None, NoAffixes)>>),
                                !.limit_day_ordinals_to_day_1 = limit,
                                !.year_suffix_implicit = implicit],
              [BaseEntry EXCEPT !.issued = Some(issued), !.year_suffix = Some(<<"a">>)],
              BaseInstance)

\* numbers and page ranges under locales with and without a
\* page-range-delimiter term
NumberScenarios ==
    \E <<number, value, delim>> \in
            {Number("page", Affixes(<<"p">>, <<".">>)), Number("citation_number", NoAffixes)}
            \X {None, Some(Typed(5, None)), Some(Typed(5, Some(8))),
                Some(Untyped(<<"i", "v">>))}
            \X {None, Some(<<"-">>), Some(<<" ", "t", "o", " ">>), Some(EmptyStr)} :
        Scenario([BaseStyle EXCEPT !.layout = Layout(<<Text(Value(<<"^">>), NoAffixes),
                                                    number>>),
                                !.terms = IF delim.some
                                          THEN BaseStyle.terms @@
                                               ("page-range-delimiter" :>
                                                    [single |-> delim.v,
                                                     multiple |-> delim.v])
                                          ELSE BaseStyle.terms],
              [BaseEntry EXCEPT !.page = value, !.citation_number = value],
              BaseInstance)

\* the list fields of a branch: absent, empty, and with several tests
ConditionPool ==
    {[IfVariable(match_, << >>, <<Text(Value(<<"1">>), NoAffixes)>>)
        EXCEPT !.disambiguate = disambiguate, !.is_numeric = is_numeric,
               !.is_uncertain_date = is_uncertain_date,
               !.locator = IF cite THEN Some(<<"page">>) ELSE None,
               !.position = IF cite THEN Some(<<"First", "Ibid">>) ELSE None,
               !.type_ = type_, !.variable = variable] :
        <<match_, disambiguate, is_numeric, is_uncertain_date, cite, type_, variable>> \in
            {"All", "Any", "None"} \X {None, Some(TRUE)}
            \X {None, Some(<< >>), Some(<<[vk |-> "Number", name |-> "page"],
                                          [vk |-> "Standard", name |-> "title"]>>)}
            \X {None, Some(<<[vk |-> "Date", name |-> "issued"]>>)}
            \X BOOLEAN
            \X {None, Some(<<"book", "article">>)}
            \X {None, Some(<< >>), Some(<<[vk |-> "Standard", name |-> "title"],
                                          [vk |-> "Number", name |-> "page"],
                                          [vk |-> "Date", name |-> "issued"],
                                          [vk |-> "Name", name |-> "author"]>>)}}

\* entries with every variable absent, present, and blank
ConditionEntries ==
    {BaseEntry,
     [BaseEntry EXCEPT !.title = Some(<<"T">>), !.page = Some(Typed(5, None)),
                       !.issued = Some([DateValue(2020, None, None)
                                           EXCEPT !.approximate = TRUE]),
                       !.author = <<"A">>],
     [BaseEntry EXCEPT !.title = Some(<<" ">>), !.page = Some(Untyped(<<" ">>)),
                       !.issued = Some(DateValue(2020, None, None)),
                       !.author = <<" ">>],
     [BaseEntry EXCEPT !.title = Some(EmptyStr), !.page = Some(Untyped(EmptyStr))]}

ConditionScenarios ==
    \E <<branch, e, cited>> \in ConditionPool \X ConditionEntries \X BOOLEAN :
        Scenario([BaseStyle EXCEPT !.layout =
                   Layout(<<Choose(<<branch>>,
                                   Some(Else(<<Text(Value(<<"O">>), NoAffixes)>>)),
                                   None)>>)],
              e,
              IF cited
              THEN [BaseInstance EXCEPT !.locator = Some("page"), !.is_first = FALSE,
                                        !.ibid = "Ibid", !.disambiguate = TRUE]
              ELSE BaseInstance)

\* a literal, a group whose only child is a group of one variable, and a
\* variable, inside a group
NestedLayout ==
    Layout(<<Text(Value(<<"^">>), NoAffixes),
             Group(<<Text(Value(<<"A">>), NoAffixes),
                     Group(<<Group(<<Text(Variable("Standard", "note"), NoAffixes)>>,
                                   None, NoAffixes)>>,
                           None, Affixes(<<"[">>, <<"]">>)),
                     Text(Variable("Standard", "title"), NoAffixes)>>,
                   Some(<<",">>), NoAffixes)>>)

NestedScenarios ==
    \E <<title, note>> \in {None, Some(<<"T">>)} \X {None, Some(<<"n">>)} :
        Scenario([BaseStyle EXCEPT !.layout = NestedLayout],
              [BaseEntry EXCEPT !.title = title, !.note = note],
              BaseInstance)

\* children of a macro that a Text expands with period stripping: texts
\* with and without their own stripping, a number, a date of one year
\* part, a label
StripPool ==
    {Text(Value(<<"a", ".">>), NoAffixes),
     [Text(Value(<<"c", ".">>), NoAffixes) EXCEPT !.strip_periods = TRUE],
     Number("page", NoAffixes),
     Date(Some("issued"), None, None, <<DatePart("Year", "Long", NoAffixes)>>,
          None, NoAffixes),
     Label("page", "Never")}

StripScenarios ==
    \E <<children, strip>> \in SeqsUpTo(StripPool, MaxChildren) \X BOOLEAN :
        Scenario([BaseStyle EXCEPT
                    !.layout = Layout(<<Text(Value(<<"^">>), NoAffixes),
                                        [Text(Macro("s"), NoAffixes)
                                            EXCEPT !.strip_periods = strip]>>),
                    !.macros = BaseStyle.macros @@ ("s" :> children)],
              [BaseEntry EXCEPT !.page = Some(Untyped(<<"5", ".">>)),
                                !.issued = Some(DateValue(2020, None, None))],
              BaseInstance)

\* a localized date form with a mask, a text-case and parts with a
\* text-case of their own
LongDateForm ==
    [Date(None, None, Some("YearMonth"),
          <<[DatePart("Day", "Numeric", Affixes(<<"d">>, EmptyStr))
                EXCEPT !.text_case = Some("lowercase")],
            [DatePart("Month", "Long", Affixes(EmptyStr, <<" ">>))
                EXCEPT !.text_case = Some("capitalize-first")],
            DatePart("Year", "Long", NoAffixes)>>,
          None, NoAffixes)
        EXCEPT !.text_case = Some("uppercase")]

\* the date parts a Date gives beside a localized form
LocalPartLists ==
    {<< >>,
     <<DatePart("Month", "Numeric", NoAffixes)>>,
     <<DatePart("Year", "Short", NoAffixes),
       [DatePart("Month", "Short", NoAffixes) EXCEPT !.text_case = Some("title")]>>,
     <<[DatePart("Day", "Ordinal", Affixes(<<"x">>, <<"y">>))
          EXCEPT !.text_case = Some("title")]>>}

LocalizedScenarios ==
    \E <<form, parts, date_part, text_case, issued>> \in
            {"numeric", "long"}
            \X {None, Some("Year"), Some("YearMonthDay")}
            \X LocalPartLists
            \X {None, Some("title")}
            \X {DateValue(2020, Some(0), Some(14)), DateValue(2020, Some(11), None),
                DateValue(2020, None, None)} :
        Scenario([BaseStyle EXCEPT
                    !.layout = Layout(<<Text(Value(<<"^">>), NoAffixes),
                                        [Date(Some("issued"), Some(form), parts,
                                              date_part, None,
                                              Affixes(<<"(">>, <<")">>))
                                            EXCEPT !.text_case = text_case]>>),
                    !.dates = [numeric |-> NumericDateForm, long |-> LongDateForm]],
              [BaseEntry EXCEPT !.issued = Some(issued)],
              BaseInstance)

\* dates to sort, years before and after the year 0, with and without
\* month and day
SortValues ==
    {DateValue(year, month, day) :
        <<year, month, day>> \in
            {-100, -44, 44, 2020} \X {None, Some(0), Some(11)}
            \X {None, Some(0), Some(14)}}

\* a date rendered for sorting under the three masks, with no year suffix
SortScenarios ==
    \E <<date, issued>> \in
            {Date(Some("issued"), None, None, <<PartYear>>, None, NoAffixes),
             Date(Some("issued"), None, None, <<PartDay, PartMonth, PartYear>>,
                  Some(<<"-">>), NoAffixes),
             Date(Some("issued"), Some("numeric"), Some("YearMonth"), << >>,
                  None, NoAffixes)}
            \X SortValues :
        Scenario([BaseStyle EXCEPT !.layout = Layout(<<date>>),
                                !.dates = [numeric |-> NumericDateForm]],
              [BaseEntry EXCEPT !.issued = Some(issued)],
              [BaseInstance EXCEPT !.sorting = TRUE])

Scenarios ==
    \/ SortScenarios
    \/ LocalizedScenarios
    \/ StripScenarios
    \/ NestedScenarios
    \/ ConditionScenarios
    \/ NumberScenarios
    \/ GroupScenarios
    \/ ChooseScenarios
    \/ LeafScenarios
    \/ DateScenarios
    \/ SinglePartScenarios

(***************************************************************************)
(* Specification                                                           *)
(***************************************************************************)
Init ==
    /\ Scenarios
    /\ ctx = InitCtx
    /\ stack = <<Call(style.layout)>>
    /\ ev = [op |-> "Init"]
    /\ span = ZERO
    /\ span_op = [op |-> "none"]

Next ==
    \/ LayoutRender
    \/ LayoutNext
    \/ LayoutReturn
    \/ RenderText
    \/ RenderTextMacro
    \/ MacroNext
    \/ MacroReturn
    \/ RenderNumber
    \/ RenderLabel
    \/ RenderDate
    \/ RenderChoose
    \/ ChooseTest
    \/ ChooseOtherwise
    \/ ChooseReturn
    \/ RWDNext
    \/ RWDChildDone
    \/ RWDReturn
    \/ RenderGroup
    \/ GroupReturn

Spec == Init /\ [][Next]_vars

Done == stack = << >>

NoFault == ~ctx.fault

(***************************************************************************)
(* Specification of the span utility                                       *)
(***************************************************************************)
\* the renderer is at rest in the specification of the spans
RendererIdle ==
    /\ style = BaseStyle /\ entry = BaseEntry /\ instance = BaseInstance
    /\ ctx = InitCtx /\ stack = << >> /\ ev = [op |-> "Init"]

Renderer == <<style, entry, instance, ctx, stack, ev>>

SpanInit ==
    /\ RendererIdle
    /\ span = ZERO
    /\ span_op = [op |-> "none"]

SpanNew ==
    /\ \E value \in SpanValues :
          /\ span' = new(value.start, value.end)
          /\ span_op' = [op |-> "new"]
    /\ UNCHANGED Renderer

SpanAt ==
    /\ \E pos \in Positions :
          /\ span' = at(pos)
          /\ span_op' = [op |-> "at", pos |-> pos]
    /\ UNCHANGED Renderer

SpanExpand ==
    /\ \E other \in SpanValues :
          /\ span' = expand(span, other)
          /\ span_op' = [op |-> "expand", self |-> span, other |-> other]
    /\ UNCHANGED Renderer

SpanToRange ==
    /\ span_op' = [op |-> "to_range", self |-> span, range |-> to_range(span)]
    /\ UNCHANGED <<Renderer, span>>

SpanNext ==
    \/ SpanNew
    \/ SpanAt
    \/ SpanExpand
    \/ SpanToRange

SpanSpec == SpanInit /\ [][SpanNext]_vars

(***************************************************************************)
(* Properties                                                              *)
(***************************************************************************)
RECURSIVE JoinNonEmpty(_, _)
\* the non-empty strings of outs, in order, with d between consecutive ones
JoinNonEmpty(outs, d) ==
    IF outs = << >> THEN EmptyStr
    ELSE LET rest == JoinNonEmpty(Tail(outs), d)
         IN IF Head(outs) = EmptyStr THEN rest
            ELSE IF rest = EmptyStr THEN Head(outs)
            ELSE Head(outs) \o d \o rest

Discarded(mark) == ctx.last_op = [op |-> "discard", mark |-> mark]

Committed(mark) == ctx.last_op = [op |-> "commit", mark |-> mark]

HasAffix(e) ==
    \/ e.affixes.prefix.some /\ e.affixes.prefix.v # EmptyStr
    \/ e.affixes.suffix.some /\ e.affixes.suffix.v # EmptyStr

\* C1: when render_with_delimiter returns, the buffer is what it was on
\* entry followed by the outputs of the children that rendered non-empty,
\* in order, with exactly one delimiter between two consecutive ones (none
\* leading, trailing or doubled around an empty child).
C1_DelimiterJoin ==
    ev.op = "RWDReturn" =>
        ctx.buf = ev.base \o JoinNonEmpty(ev.outs, OrEmpty(ev.delimiter))

\* children A, empty, C with a delimiter
C1_Witness ==
    /\ ev.op = "RWDReturn"
    /\ ev.delimiter.some /\ ev.delimiter.v # EmptyStr
    /\ Len(ev.outs) = 3
    /\ ev.outs[1] # EmptyStr /\ ev.outs[2] = EmptyStr /\ ev.outs[3] # EmptyStr

\* a group whose children are literals and exactly one variable, which its
\* render resolves
OneVariableGroup(e) ==
    /\ ~AuthorOnly
    /\ \A i \in 1..Len(e.children) :
          /\ e.children[i].kind = "Text"
          /\ e.children[i].target.t \in {"Value", "Variable"}
          /\ e.children[i].target.t = "Variable" =>
                e.children[i].target.vk \in {"Standard", "Number"}
    /\ Cardinality({i \in 1..Len(e.children) : e.children[i].target.t = "Variable"}) = 1

OnlyVariablePresent(e) ==
    \E i \in 1..Len(e.children) :
        /\ e.children[i].target.t = "Variable"
        /\ entry[e.children[i].target.name].some

\* C2: when a Group has rendered its children, its region is discarded iff
\* its usage info has a referenced variable, no non-empty variable, no
\* printing macro and no surviving nested group, and committed otherwise; a
\* group of literals and one absent variable leaves nothing, the same group
\* with the variable present keeps its whole content.
C2_GroupSuppression ==
    ev.op = "GroupReturn" =>
        /\ Discarded(ev.mark) <=>
              /\ ev.info.has_vars
              /\ ~ev.info.has_non_empty_vars
              /\ ~ev.info.has_used_macros
              /\ ~ev.info.has_non_empty_group
        /\ Discarded(ev.mark) \/ Committed(ev.mark)
        /\ OneVariableGroup(ev.e) =>
              IF OnlyVariablePresent(ev.e)
              THEN Committed(ev.mark) /\ ctx.buf = ev.before
              ELSE Discarded(ev.mark) /\ ctx.buf = ev.opened

\* a group that printed a literal and one absent variable has been discarded
C2_Witness ==
    /\ ev.op = "GroupReturn"
    /\ OneVariableGroup(ev.e) /\ ~OnlyVariablePresent(ev.e)
    /\ Discarded(ev.mark)
    /\ ev.before # ev.opened

\* a group saved from suppression by a macro that printed
C2_WitnessMacro ==
    /\ ev.op = "GroupReturn"
    /\ ev.info.has_vars /\ ~ev.info.has_non_empty_vars /\ ev.info.has_used_macros

\* C3: a Group whose render referenced no variable is committed, never
\* discarded, and what its children wrote stays in the buffer.
C3_DecorativeGroupKept ==
    (ev.op = "GroupReturn" /\ ~ev.info.has_vars) =>
        /\ Committed(ev.mark)
        /\ ctx.buf = ev.before
        /\ ctx.buf = ev.opened
                     \o (IF \A i \in 1..Len(ev.outs) : ev.outs[i] = EmptyStr
                         THEN EmptyStr
                         ELSE OrEmpty(ev.e.affixes.prefix)
                              \o JoinNonEmpty(ev.outs, OrEmpty(ev.e.delimiter))
                              \o OrEmpty(ev.e.affixes.suffix))

\* a group of literals only has returned with its literal in the buffer
C3_Witness ==
    /\ ev.op = "GroupReturn" /\ ~ev.info.has_vars
    /\ \E i \in 1..Len(ev.outs) : ev.outs[i] # EmptyStr
    /\ Len(ctx.buf) > Len(ev.opened)

\* the step closed a region of the delimiter algorithm or of a Group
ClosedRegion ==
    \/ ev.op \in {"RWDChildDone", "GroupReturn"}
    \/ ev.op = "RWDReturn" /\ ev.mark # 0

\* C6: whenever the region of an empty child, of a pending delimiter or of
\* a suppressed Group is discarded, the buffer is again exactly what it was
\* when that region was opened.
C6_DiscardRestoresBuffer ==
    (ClosedRegion /\ Discarded(ev.mark)) => ctx.buf = ev.opened

\* a suppressed group took the committed output of its children with it
C6_Witness ==
    /\ ev.op = "GroupReturn" /\ Discarded(ev.mark)
    /\ \E i \in 1..Len(ev.outs) : ev.outs[i] # EmptyStr
    /\ ctx.buf = ev.opened

\* a pending delimiter has been discarded
C6_WitnessDelimiter ==
    ev.op = "RWDReturn" /\ ev.mark # 0 /\ Discarded(ev.mark) /\ ev.before # ev.opened

\* the returned element has an affix and its content was empty
EmptyAffixedReturn(r) ==
    \/ /\ r.op = "RenderText"
       /\ HasAffix(r.e)
       /\ ResolveTextTarget(r.e).some /\ ResolveTextTarget(r.e).v = EmptyStr
    \/ r.op = "MacroReturn" /\ HasAffix(r.e) /\ ~r.printed
    \/ /\ r.op = "GroupReturn"
       /\ HasAffix(r.e)
       /\ \A i \in 1..Len(r.outs) : r.outs[i] = EmptyStr

\* C7: an element with a prefix or suffix whose content is empty leaves the
\* buffer as it found it, and the delimiter algorithm around it finds its
\* region empty and discards it.
C7_AffixOnEmptyContent ==
    /\ (ev.op = "RenderText" /\ EmptyAffixedReturn(ev)) => ctx.buf = ev.before.buf
    /\ (ev.op \in {"MacroReturn", "GroupReturn"} /\ EmptyAffixedReturn(ev)) =>
          ctx.buf = ev.opened
    /\ (ev.op = "RWDChildDone" /\ EmptyAffixedReturn(ev.prev)) =>
          Discarded(ev.mark) /\ ctx.buf = ev.opened

\* a Text that expanded a macro producing nothing, with a prefix
C7_Witness ==
    /\ ev.op = "RWDChildDone"
    /\ ev.prev.op = "MacroReturn" /\ EmptyAffixedReturn(ev.prev)

\* a committed Group with affixes whose children all rendered empty
C7_WitnessGroup ==
    /\ ev.op = "RWDChildDone"
    /\ ev.prev.op = "GroupReturn" /\ EmptyAffixedReturn(ev.prev)
    /\ ~ev.prev.info.has_vars

\* C4: Choose tests its branches in document order and renders the
\* children of the first branch whose match policy accepts its condition
\* sequence and of no other; a branch is tested only when no earlier one
\* matched, and the otherwise-branch is reached only when none matched.
C4_FirstMatchingBranch ==
    /\ \A k \in 1..Len(stack) :
          stack[k].f = "Choose" =>
              \A j \in 1..(stack[k].b - 1) : ~BranchMatches(stack[k].e.branches[j])
    /\ ev.op = "ChooseTest" =>
          /\ ev.matched <=> BranchMatches(ev.e.branches[ev.b])
          /\ \A j \in 1..(ev.b - 1) : ~BranchMatches(ev.e.branches[j])
          /\ ev.matched =>
                /\ Top.f = "RWD" /\ Top.i = 1
                /\ Top.children = ev.e.branches[ev.b].children
                /\ Top.delimiter = ev.e.delimiter
    /\ ev.op \in {"ChooseOtherwise", "ChooseReturn"} =>
          \A j \in 1..Len(ev.e.branches) : ~BranchMatches(ev.e.branches[j])

\* the first branch matched and the second would have matched too
C4_Witness ==
    /\ ev.op = "ChooseTest" /\ ev.matched
    /\ ev.b < Len(ev.e.branches)
    /\ BranchMatches(ev.e.branches[ev.b + 1])

\* C5: when no branch matches, an otherwise-branch is rendered by the
\* delimiter algorithm with the delimiter of the Choose; without an
\* otherwise-branch Choose returns with the buffer and the stack of open
\* regions as they were on entry.
C5_ChooseFallback ==
    /\ ev.op = "ChooseOtherwise" =>
          /\ \A j \in 1..Len(ev.e.branches) : ~BranchMatches(ev.e.branches[j])
          /\ Top.f = "RWD" /\ Top.i = 1 /\ Top.base = ctx.buf
          /\ Top.children = ev.e.otherwise.v.children
          /\ Top.delimiter = ev.e.delimiter
    /\ ev.op = "ChooseReturn" =>
          /\ ctx.buf = ev.entry_ctx.buf
          /\ ctx.elems = ev.entry_ctx.elems
          /\ ctx.tags = ev.entry_ctx.tags

\* two branches failed and the otherwise-branch is about to render
C5_Witness ==
    ev.op = "ChooseOtherwise" /\ Len(ev.e.branches) = 2 /\ ev.e.delimiter.some

\* two branches failed, there is no otherwise-branch, the buffer has content
C5_WitnessNone ==
    ev.op = "ChooseReturn" /\ Len(ev.e.branches) = 2 /\ ctx.buf # EmptyStr

LeafReturn == ev.op \in {"RenderText", "RenderNumber", "RenderLabel", "RenderDate"}

\* the source value of the leaf the step rendered is absent
SourceAbsent ==
    CASE ev.op = "RenderText" -> ~ResolveTextTarget(ev.e).some
      [] ev.op = "RenderDate" ->
            ~ev.e.variable.some \/ ~resolve_date_variable(ev.e.variable.v).some
      [] OTHER -> ~resolve_number_variable(ev.e.variable).some

\* the step opened no region, wrote nothing and committed no tag
NoRegionNoOutput ==
    /\ ctx.buf = ev.before.buf
    /\ ctx.elems = ev.before.elems
    /\ ctx.pushes = ev.before.pushes
    /\ ctx.tags = ev.before.tags

\* C8 as stated: every leaf renderer, Number in normal mode included,
\* returns early on an absent source value: no region opened, no prefix
\* written, no tag committed, the buffer unchanged.
C8_LeafEarlyReturn ==
    (LeafReturn /\ ~AuthorOnly /\ SourceAbsent) => NoRegionNoOutput

\* C8 amended: Text, Label and Date return early on an absent source value
\* (no region, no prefix, no tag, buffer unchanged); Number outside
\* author-only mode does not: it opens its region and commits it, empty,
\* with its tag, and the text of the buffer is unchanged.
C8_LeafEarlyReturnButNumber ==
    (LeafReturn /\ ~AuthorOnly /\ SourceAbsent) =>
        IF ev.op = "RenderNumber"
        THEN /\ ctx.buf = ev.before.buf
             /\ ctx.elems = ev.before.elems
             /\ ctx.pushes > ev.before.pushes
             /\ ctx.tags = Append(ev.before.tags,
                                  [from |-> Len(ctx.buf), to |-> Len(ctx.buf),
                                   tag |-> IF ev.e.variable = "citation_number"
                                           THEN "CitationNumber" ELSE "Number"])
        ELSE NoRegionNoOutput

\* a Number with a prefix whose variable is absent has been rendered
C8_Witness ==
    /\ ev.op = "RenderNumber" /\ ~AuthorOnly /\ SourceAbsent
    /\ HasAffix(ev.e)
    /\ ev.before.buf # EmptyStr

\* a Label whose variable is absent has returned early
C8_WitnessLabel ==
    ev.op = "RenderLabel" /\ ~AuthorOnly /\ SourceAbsent /\ ev.before.elems # << >>

\* what the step appended to the buffer
Written == SubSeq(ctx.buf, Len(ev.before.buf) + 1, Len(ctx.buf))

\* Date in normal mode with a date and a resolved form
NormalDate ==
    /\ ev.op = "RenderDate" /\ ~AuthorOnly /\ ~instance.sorting
    /\ ~SourceAbsent
    /\ ev.e.form.some => localized_date(ev.e.form.v).some

DateBase(e) == IF e.form.some THEN localized_date(e.form.v) ELSE None

DateList(e) == IF e.form.some THEN DateBase(e).v.date_part ELSE e.date_part

DateMask(e) ==
    IF e.parts.some THEN e.parts.v
    ELSE IF e.form.some /\ DateBase(e).v.parts.some THEN DateBase(e).v.parts.v
    ELSE "YearMonthDay"

\* what each part of the list renders on its own, nothing for a part the
\* mask excludes
DatePartOuts(e, date) ==
    [i \in 1..Len(DateList(e)) |->
        LET part == DateList(e)[i]
        IN IF \/ part.name = "Month" /\ ~has_month(DateMask(e))
              \/ part.name = "Day" /\ ~has_day(DateMask(e))
           THEN EmptyStr
           ELSE render_date_part(InitCtx, part, date,
                                 IF e.form.some THEN FindPart(e.date_part, part.name)
                                 ELSE None).buf]

\* C9: in normal mode Date joins its parts like the group algorithm: the
\* delimiter stands only between two parts that both rendered non-empty,
\* never trailing or doubled when the month or the day is absent.
C9_DatePartsJoined ==
    NormalDate =>
        LET date == resolve_date_variable(ev.e.variable.v).v
            body == JoinNonEmpty(DatePartOuts(ev.e, date), OrEmpty(ev.e.delimiter))
        IN Written = IF body = EmptyStr THEN EmptyStr
                     ELSE OrEmpty(ev.e.affixes.prefix) \o body
                          \o OrEmpty(ev.e.affixes.suffix)

\* the mask of the sort key: the parts of a localized date, the part names
\* of an explicit one
SortHas(e, name) ==
    IF e.form.some
    THEN CASE name = "Year" -> TRUE
           [] name = "Month" -> ~e.parts.some \/ e.parts.v # "Year"
           [] OTHER -> ~e.parts.some \/ e.parts.v = "YearMonthDay"
    ELSE \E i \in 1..Len(e.date_part) : e.date_part[i].name = name

SortDate ==
    ev.op = "RenderDate" /\ ~AuthorOnly /\ instance.sorting /\ ~SourceAbsent

TwoDigits(o) == ZeroPad(Digits(IF o.some THEN o.v + 1 ELSE 0), 2)

\* C10 as stated: in sort mode Date writes digits only: the year padded to
\* four digits, then the month and the day padded to two and one-indexed,
\* for the parts the mask selects, and nothing else.
C10_SortKeyDigitsOnly ==
    SortDate =>
        LET date == resolve_date_variable(ev.e.variable.v).v
        IN /\ \A i \in 1..Len(Written) : IsDigit(Written[i])
           /\ Written =
                (IF SortHas(ev.e, "Year") THEN ZeroPad(Digits(Abs(date.year)), 4)
                 ELSE EmptyStr)
                \o (IF SortHas(ev.e, "Month") THEN TwoDigits(date.month) ELSE EmptyStr)
                \o (IF SortHas(ev.e, "Day") THEN TwoDigits(date.day) ELSE EmptyStr)

\* C10 amended: in sort mode Date writes, in the order year, month, day and
\* for the parts the mask selects: the year padded with zeros to width four,
\* where a negative year starts with '-' that counts in the width, followed
\* at once by the year suffix when the style renders it implicitly and the
\* entry has one; the month and the day as two digits, one-indexed, 00 when
\* absent; no delimiter.  2020, month 0, day 14 gives 20200115.
C10_SortKey ==
    SortDate =>
        LET date == resolve_date_variable(ev.e.variable.v).v
            year == IF date.year < 0
                    THEN <<"-">> \o ZeroPad(Digits(-date.year), 3)
                    ELSE ZeroPad(Digits(date.year), 4)
            suffix == IF style.year_suffix_implicit
                      THEN OrEmpty(entry.year_suffix) ELSE EmptyStr
            all == SortHas(ev.e, "Year") /\ SortHas(ev.e, "Month") /\ SortHas(ev.e, "Day")
        IN /\ Written =
                (IF SortHas(ev.e, "Year") THEN year \o suffix ELSE EmptyStr)
                \o (IF SortHas(ev.e, "Month") THEN TwoDigits(date.month) ELSE EmptyStr)
                \o (IF SortHas(ev.e, "Day") THEN TwoDigits(date.day) ELSE EmptyStr)
           /\ (/\ all /\ ~style.year_suffix_implicit
               /\ date.year = 2020 /\ date.month = Some(0) /\ date.day = Some(14)) =>
                 Written = <<"2", "0", "2", "0", "0", "1", "1", "5">>
           /\ ctx.elems = ev.before.elems /\ ctx.tags = ev.before.tags

\* the date 2020, month 0, day 14 under the mask year+month+day
C10_Witness ==
    /\ SortDate
    /\ Written = <<"2", "0", "2", "0", "0", "1", "1", "5">>
    /\ resolve_date_variable(ev.e.variable.v).v.month = Some(0)

\* a negative year with its year suffix
C10_WitnessNegative ==
    /\ SortDate
    /\ Len(Written) >= 5 /\ SubSeq(Written, 1, 5) = <<"-", "0", "4", "4", "a">>

\* Date in normal mode with the single explicit part `name` in form `form`
SinglePart(name, form) ==
    /\ NormalDate /\ ~ev.e.form.some
    /\ Len(ev.e.date_part) = 1
    /\ ev.e.date_part[1].name = name /\ ev.e.date_part[1].form = form
    /\ ev.e.date_part[1].affixes = NoAffixes /\ ev.e.affixes = NoAffixes

\* the one-indexed day of the date the step rendered, 0 when it has none
DayValue ==
    LET date == resolve_date_variable(ev.e.variable.v).v
    IN IF date.day.some THEN date.day.v + 1 ELSE 0

YearValue == resolve_date_variable(ev.e.variable.v).v.year

\* C11: with the flag that limits day ordinals to day 1 set, a Day part in
\* ordinal form renders the value 1 as the bare numeral 1 and the value 2
\* as 2nd.
C11_LimitedOrdinals ==
    SinglePart("Day", "Ordinal") /\ style.limit_day_ordinals_to_day_1 =>
        /\ DayValue = 1 => Written = <<"1">>
        /\ DayValue = 2 => Written = <<"2", "n", "d">>

C11_Witness ==
    /\ SinglePart("Day", "Ordinal") /\ style.limit_day_ordinals_to_day_1
    /\ DayValue = 2 /\ Written = <<"2", "n", "d">>

C11_WitnessOne ==
    /\ SinglePart("Day", "Ordinal") /\ style.limit_day_ordinals_to_day_1
    /\ DayValue = 1 /\ Written = <<"1">>

\* C12: with the flag set a Day part in ordinal form gets an ordinal suffix
\* exactly when its value is 1 and is a plain numeral otherwise; with the
\* flag unset every day in ordinal form gets a suffix.
C12_OrdinalOnlyDay1 ==
    SinglePart("Day", "Ordinal") /\ DayValue > 0 =>
        Written = IF ~style.limit_day_ordinals_to_day_1 \/ DayValue = 1
                  THEN Digits(DayValue) \o OrdinalSuffix(DayValue)
                  ELSE Digits(DayValue)

\* C13: in normal mode a Year part with value v writes the digits of |v|
\* (long form) or of |v| mod 100 padded to two digits (short form), at once
\* followed by BC when v < 0, by AD when 0 <= v < 1000 and by no era marker
\* when v >= 1000; the implicit year suffix, if any, comes after.
C13_YearEra ==
    \A form \in {"Long", "Short"} :
        SinglePart("Year", form) =>
            LET v == YearValue
                a == IF v < 0 THEN 0 - v ELSE v
                digits == IF form = "Long" THEN Digits(a) ELSE ZeroPad(Digits(a % 100), 2)
                era == IF v < 0 THEN <<"B", "C">>
                       ELSE IF v < 1000 THEN <<"A", "D">> ELSE EmptyStr
                suffix == IF style.year_suffix_implicit THEN entry.year_suffix.v
                          ELSE EmptyStr
            IN Written = digits \o era \o suffix

C13_Witness ==
    /\ SinglePart("Year", "Long") /\ YearValue = -44 /\ ~style.year_suffix_implicit
    /\ Written = <<"4", "4", "B", "C">>

C13_WitnessAD ==
    /\ SinglePart("Year", "Short") /\ YearValue = 44 /\ ~style.year_suffix_implicit
    /\ Written = <<"4", "4", "A", "D">>

C13_WitnessNoEra ==
    /\ SinglePart("Year", "Long") /\ YearValue = 1000 /\ ~style.year_suffix_implicit
    /\ Written = <<"1", "0", "0", "0">>

\* Number rendered, in normal mode, a page variable in numeric form whose
\* typed value is a range
PageRange ==
    /\ ev.op = "RenderNumber" /\ ~AuthorOnly /\ ~instance.sorting
    /\ ev.e.variable = "page" /\ ev.e.form = "Numeric"
    /\ entry.page.some /\ entry.page.v.typed /\ entry.page.v.hi.some

\* the locale's page-range-delimiter term when it is defined, the en dash
\* otherwise
PageRangeSeparator ==
    IF "page-range-delimiter" \in DOMAIN style.terms
    THEN style.terms["page-range-delimiter"].single
    ELSE EnDash

C14_WitnessTerm ==
    /\ PageRange /\ "page-range-delimiter" \in DOMAIN style.terms
    /\ Written = <<"p", "5", " ", "t", "o", " ", "8", ".">>

\* the tests a branch lists, field by field in the order disambiguate,
\* is-numeric, is-uncertain-date, locator, position, type, variable
ConditionTests(cond) ==
    (IF cond.disambiguate.some
     THEN <<Item(cond.disambiguate.v = instance.disambiguate)>> ELSE << >>)
    \o FieldItems(cond.is_numeric, "IsNumeric")
    \o FieldItems(cond.is_uncertain_date, "IsUncertainDate")
    \o FieldItems(cond.locator, "Locator")
    \o FieldItems(cond.position, "Position")
    \o FieldItems(cond.type_, "Type")
    \o FieldItems(cond.variable, "Variable")

ListLen(field) == IF field.some THEN Len(field.v) ELSE 0

\* how many tests a branch lists
CountTests(cond) ==
    (IF cond.disambiguate.some THEN 1 ELSE 0)
    + ListLen(cond.is_numeric) + ListLen(cond.is_uncertain_date)
    + ListLen(cond.locator) + ListLen(cond.position)
    + ListLen(cond.type_) + ListLen(cond.variable)

RECURSIVE IterEnd(_, _)
\* the iterator after it returned None for the first time
IterEnd(cond, it) ==
    LET r == IterNext(cond, it)
    IN IF r.item.some THEN IterEnd(cond, r.it) ELSE r.it

\* the branch the step tested
TestedBranch == ev.e.branches[ev.b]

\* C15: for every branch the condition iterator yields one boolean for a
\* present disambiguate flag and one per listed value of each present list
\* field, in the order disambiguate, is-numeric, is-uncertain-date, locator,
\* position, type, variable and in list order; absent fields and empty
\* lists yield nothing; once it has returned the end of the sequence it
\* keeps returning it.
C15_ConditionSequence ==
    ev.op = "ChooseTest" =>
        /\ BranchConditionIter(TestedBranch) = ConditionTests(TestedBranch)
        /\ Len(BranchConditionIter(TestedBranch)) = CountTests(TestedBranch)
        /\ LET end == IterEnd(TestedBranch, from_branch)
           IN IterNext(TestedBranch, end) = [item |-> None, it |-> end]

\* a branch with an absent field, an empty list and two lists of several
\* tests
C15_Witness ==
    /\ ev.op = "ChooseTest"
    /\ ~TestedBranch.disambiguate.some
    /\ TestedBranch.is_numeric = Some(<< >>)
    /\ ListLen(TestedBranch.position) = 2 /\ ListLen(TestedBranch.variable) = 4
    /\ Len(BranchConditionIter(TestedBranch)) = 7

\* the value of the variable of kind vk named name is absent, empty or
\* only whitespace
BlankVariable(var) ==
    CASE var.vk = "Name" ->
            \A i \in 1..Len(entry[var.name]) : IsBlank(entry[var.name][i])
      [] var.vk = "Date" -> ~entry[var.name].some
      [] var.vk = "Number" ->
            \/ ~entry[var.name].some
            \/ ~entry[var.name].v.typed /\ IsBlank(entry[var.name].v.s)
      [] OTHER -> ~entry[var.name].some \/ IsBlank(entry[var.name].v)

\* C16: the variable-presence test of a branch yields true exactly when the
\* variable resolves to a non-blank value, for every kind of variable:
\* absent, empty and whitespace-only values yield false.
C16_VariablePresence ==
    ev.op = "ChooseTest" /\ TestedBranch.variable.some =>
        \A i \in 1..Len(TestedBranch.variable.v) :
            VariableItem(TestedBranch.variable.v[i]).val
                <=> ~BlankVariable(TestedBranch.variable.v[i])

\* C16 for the standard variables alone
C16_StandardVariablePresence ==
    ev.op = "ChooseTest" /\ TestedBranch.variable.some =>
        \A i \in 1..Len(TestedBranch.variable.v) :
            TestedBranch.variable.v[i].vk = "Standard" =>
                (VariableItem(TestedBranch.variable.v[i]).val
                    <=> ~BlankVariable(TestedBranch.variable.v[i]))

\* C17: in author-only mode Number, Label, Date and every Text whose target
\* is not a macro return without writing anything and without opening a
\* region; a Text whose target is a macro is still expanded: its region is
\* opened and its children are rendered in turn.
C17_AuthorOnly ==
    AuthorOnly =>
        /\ LeafReturn /\ ~(ev.op = "RenderText" /\ IsMacroTarget(ev.e)) =>
              ctx = ev.before
        /\ ev.op = "RenderTextMacro" =>
              /\ Top.f = "Macro" /\ Top.i = 1
              /\ Top.children = get_macro(Top.e.target.name).v
              /\ Len(ctx.elems) > 0
        /\ ev.op = "MacroNext" =>
              /\ Top.f = "Call"
              /\ Top.e = stack[Len(stack) - 1].children[stack[Len(stack) - 1].i - 1]
        /\ \A k \in 1..Len(stack) :
              stack[k].f = "Macro" /\ k < Len(stack) => stack[k].i > 1

\* in author-only mode a Number whose variable is present returned
C17_Witness ==
    /\ AuthorOnly /\ ev.op = "RenderNumber" /\ ~SourceAbsent
    /\ ctx = ev.before

\* in author-only mode a macro was expanded and its child rendered
C17_WitnessMacro ==
    /\ AuthorOnly /\ ev.op = "RenderText" /\ ~IsMacroTarget(ev.e)
    /\ In("Macro") /\ Top.i > Len(Top.children)

RECURSIVE Work(_)
RECURSIVE SumWork(_, _, _)
\* the steps left to render the elements of seq from the i-th on, with per
\* steps of the caller around each
SumWork(seq, i, per) ==
    IF i > Len(seq) THEN 0 ELSE per + Work(seq[i]) + SumWork(seq, i + 1, per)

\* the steps of a render_with_delimiter call on children
RWDWork(children) == SumWork(children, 1, 2) + 1

MaxOf(S) == IF S = {} THEN 0 ELSE CHOOSE m \in S : \A n \in S : n <= m

\* a bound on the steps of a Choose from its b-th branch on: the tests
\* left, the fallback, and the longest body it may render
ChooseWork(e, b) ==
    (IF b <= Len(e.branches) THEN Len(e.branches) - b + 1 ELSE 0) + 1
    + MaxOf({RWDWork(e.branches[j].children) : j \in b..Len(e.branches)}
            \cup (IF e.otherwise.some THEN {RWDWork(e.otherwise.v.children)} ELSE {}))

\* a bound on the steps a call of e.render takes; defined because no macro
\* reaches itself
Work(e) ==
    CASE e.kind = "Text" ->
            IF IsMacroTarget(e) /\ ResolveTextTarget(e).some
            THEN 2 + SumWork(ResolveTextTarget(e).v, 1, 1)
            ELSE 1
      [] e.kind = "Group" -> 2 + RWDWork(e.children)
      [] e.kind = "Choose" -> 1 + ChooseWork(e, 1)
      [] e.kind = "Layout" -> 2 + SumWork(e.elements, 1, 1)
      [] OTHER -> 1

\* the steps left in one frame of the stack, the calls it has made excluded
FrameWork(frame) ==
    CASE frame.f = "Call" -> Work(frame.e)
      [] frame.f = "Layout" -> SumWork(frame.elements, frame.i, 1) + 1
      [] frame.f = "Macro" -> SumWork(frame.children, frame.i, 1) + 1
      [] frame.f = "Choose" -> ChooseWork(frame.e, frame.b)
      [] frame.f = "RWD" ->
            IF frame.pc = "loop" THEN SumWork(frame.children, frame.i, 2) + 1
            ELSE SumWork(frame.children, frame.i + 1, 2) + 2
      [] OTHER -> 1

RECURSIVE StackWork(_)
StackWork(frames) ==
    IF frames = << >> THEN 0
    ELSE FrameWork(frames[1]) + StackWork(Tail(frames))

\* a bound on the steps left until Layout.render returns
Measure == StackWork(stack)

\* the innermost call in progress is at a point the renderers step from
CanStep ==
    \/ Top.f = "Call"
          /\ Top.e.kind \in {"Layout", "Text", "Number", "Label", "Date", "Choose", "Group"}
    \/ Top.f \in {"Layout", "Macro"} /\ Top.i \in 1..(Len(IF Top.f = "Layout"
                                                          THEN Top.elements
                                                          ELSE Top.children) + 1)
    \/ Top.f = "Choose" /\ Top.b \in 1..(Len(Top.e.branches) + 1)
    \/ Top.f = "RWD" /\ Top.pc = "loop" /\ Top.i \in 1..(Len(Top.children) + 1)
    \/ Top.f = "RWD" /\ Top.pc = "child" /\ Top.i \in 1..Len(Top.children)
    \/ Top.f = "Group"

\* C18: a rendering request completes: with macros that do not reach
\* themselves, every step of the renderers lowers a bound on the steps left
\* and leaves either a call that can step again or Layout.render returned
\* with every region closed and some string in the buffer.
C18_Terminates ==
    [][/\ Measure' < Measure
       /\ Measure' >= 0
       /\ IF stack' = << >> THEN ~ctx'.fault /\ ctx'.elems = << >> ELSE CanStep']_vars

\* Layout.render returned after a macro expanded a nested macro
C18_Witness ==
    /\ Done /\ ev.op = "LayoutReturn"
    /\ style.layout.elements[Len(style.layout.elements)] = Text(Macro("n"), NoAffixes)
    /\ ctx.buf = <<"^", "N", "Z">>

\* render_with_delimiter has just found the region of a child empty
ChildFoundEmpty == ev.op = "RWDChildDone" /\ ev.before = ev.opened

\* the region of the pending delimiter of the innermost
\* render_with_delimiter call is open
DelimiterPending == Top.loc # 0 /\ Len(ctx.elems) >= Top.loc

\* C19 as stated: when a child's region is found empty, the child's region
\* and the pending delimiter region, if one is open, are both discarded in
\* that same iteration, and last_empty is true afterwards.
C19_DelimiterDiscardedWithChild ==
    ChildFoundEmpty =>
        /\ Discarded(ev.mark) /\ Top.last_empty
        /\ ~DelimiterPending
        /\ Top.loc # 0 => ctx.buf = Top.loc_buf

\* C19 amended: when a child's region is found empty, the child's region is
\* discarded in that same iteration and last_empty is true afterwards; the
\* pending delimiter region, if one is open, is not closed then: it stays
\* open with the delimiter in the buffer, a later non-empty child is
\* rendered inside it, and it is closed at the next delimiter or after the
\* loop, where it is discarded if the last child was empty and committed
\* otherwise.
C19_DelimiterStaysPending ==
    /\ ChildFoundEmpty =>
          /\ Discarded(ev.mark) /\ Top.last_empty
          /\ ctx.buf = ev.opened
          /\ Top.loc # 0 =>
                /\ Len(ctx.elems) = Top.loc
                /\ ctx.buf = Top.loc_buf \o OrEmpty(Top.delimiter)
    /\ ev.op = "RWDReturn" /\ ev.mark # 0 =>
          IF ev.last_empty THEN Discarded(ev.mark) ELSE Committed(ev.mark)

\* an empty child after a delimiter: the delimiter is still in the buffer
C19_Witness ==
    /\ ChildFoundEmpty /\ Top.loc # 0
    /\ Top.delimiter.some /\ Top.delimiter.v # EmptyStr
    /\ Len(ctx.buf) > Len(Top.loc_buf)

\* the depths of the region, format, case and usage-info stacks
Depths(c) ==
    [elems |-> Len(c.elems), formats |-> c.formats, cases |-> c.cases,
     usage |-> Len(c.usage)]

\* what a call in progress holds open: Layout its format scope; Text on a
\* macro its region, its affix region and its case scope; Group its region,
\* its affix region and its usage info; render_with_delimiter the pending
\* delimiter and the region of the child being rendered
FrameDepths(frame) ==
    CASE frame.f = "Layout" -> [elems |-> 0, formats |-> 1, cases |-> 0, usage |-> 0]
      [] frame.f = "Macro" -> [elems |-> 2, formats |-> 0, cases |-> 1, usage |-> 0]
      [] frame.f = "Group" -> [elems |-> 2, formats |-> 0, cases |-> 0, usage |-> 1]
      [] frame.f = "RWD" ->
            [elems |-> (IF frame.loc # 0 THEN 1 ELSE 0)
                       + (IF frame.pc = "child" THEN 1 ELSE 0),
             formats |-> 0, cases |-> 0, usage |-> 0]
      [] OTHER -> [elems |-> 0, formats |-> 0, cases |-> 0, usage |-> 0]

RECURSIVE StackDepths(_)
\* the depths the calls in progress account for, over those of InitCtx
StackDepths(frames) ==
    IF frames = << >> THEN Depths(InitCtx)
    ELSE LET rest == StackDepths(SubSeq(frames, 1, Len(frames) - 1))
             top == FrameDepths(frames[Len(frames)])
         IN [elems |-> rest.elems + top.elems, formats |-> rest.formats + top.formats,
             cases |-> rest.cases + top.cases, usage |-> rest.usage + top.usage]

\* C20: regions nest LIFO and every scope is balanced: no commit, discard
\* or pop ever meets anything but the most recently opened mark, the open
\* regions and scopes are at every moment exactly those of the calls in
\* progress, and so every render call, the leaf renderers and
\* render_date_part included, returns with the region, format, case and
\* usage-info stacks at the depth they had on entry.
C20_Balanced ==
    /\ ~ctx.fault
    /\ Depths(ctx) = StackDepths(stack)
    /\ LeafReturn => Depths(ctx) = Depths(ev.before)
    /\ Done => ctx.quotes = 0

\* a date with a month in its part list and none in its value returned,
\* after render_date_part took its early return
C20_Witness ==
    /\ ev.op = "RenderDate" /\ NormalDate
    /\ \E i \in 1..Len(DateList(ev.e)) : DateList(ev.e)[i].name = "Month"
    /\ ~resolve_date_variable(ev.e.variable.v).v.month.some
    /\ Len(ctx.buf) > Len(ev.before.buf)

\* render_with_delimiter returned after it closed a pending delimiter
C20_WitnessDelimiter ==
    /\ ev.op = "RWDReturn" /\ ev.mark # 0
    /\ Depths(ctx) = StackDepths(stack) /\ Len(stack) > 1


(***************************************************************************)
(* C21: a Text that expands a macro reports that a macro printed non-empty *)
(* content to the innermost usage info if and only if the buffer is longer *)
(* after the macro's children than it was just before the first child; a   *)
(* macro that is missing from the macro table reports nothing.             *)
(***************************************************************************)
\* the macro's children left the buffer longer than they found it
MacroGrew == Len(ev.body) < Len(ev.before.buf)

C21_MacroReport ==
    /\ ev.op = "MacroReturn" =>
          ctx.usage = IF MacroGrew
                      THEN [ev.before.usage EXCEPT
                              ![Len(ev.before.usage)].has_used_macros = TRUE]
                      ELSE ev.before.usage
    /\ (ev.op = "RenderText" /\ IsMacroTarget(ev.e)) => ctx = ev.before

\* a macro with non-empty content sets the flag that was not set before
C21_Witness ==
    /\ ev.op = "MacroReturn" /\ MacroGrew
    /\ ~ev.before.usage[Len(ev.before.usage)].has_used_macros
    /\ ctx.usage[Len(ctx.usage)].has_used_macros

\* a macro with a prefix whose children all render empty
C21_WitnessEmpty ==
    /\ ev.op = "MacroReturn" /\ ~MacroGrew
    /\ OrEmpty(ev.e.affixes.prefix) # EmptyStr
    /\ ~ctx.usage[Len(ctx.usage)].has_used_macros

\* a macro that the style does not define
C21_WitnessMissing ==
    /\ ev.op = "RenderText" /\ IsMacroTarget(ev.e) /\ ~AuthorOnly

(***************************************************************************)
(* C22: a Group reports itself to the enclosing usage info as a surviving  *)
(* nested group if and only if its own region was committed.               *)
(***************************************************************************)
\* a child that is a Text of a standard or number variable the entry lacks
AbsentVariable(child) ==
    /\ child.kind = "Text" /\ child.target.t = "Variable"
    /\ child.target.vk \in {"Standard", "Number"}
    /\ ~entry[child.target.name].some

\* the usage infos below the one of the group that returned
EnclosingUsage == SubSeq(ev.usage_before, 1, Len(ev.usage_before) - 1)

\* the flag of the enclosing usage info is set exactly on a commit, and
\* nothing else of the usage infos changes
ReportsIffCommitted ==
    /\ Committed(ev.mark) =>
          ctx.usage = [EnclosingUsage EXCEPT
                         ![Len(EnclosingUsage)].has_non_empty_group = TRUE]
    /\ Discarded(ev.mark) => ctx.usage = EnclosingUsage
    /\ Committed(ev.mark) \/ Discarded(ev.mark)

\* every child was a suppressed inner group or an absent variable
OnlySuppressedContent ==
    /\ ev.e.children # << >>
    /\ \A i \in 1..Len(ev.e.children) :
          ev.suppressed[i] \/ AbsentVariable(ev.e.children[i])

\* C22 as stated: the report is made iff the region was committed, and an
\* outer group whose only content is suppressed inner groups, with or
\* without absent variables beside them, is itself discarded.
C22_SuppressedOuter ==
    ev.op = "GroupReturn" =>
        /\ ReportsIffCommitted
        /\ OnlySuppressedContent => Discarded(ev.mark)

\* what holds of C22: the report is made iff the region was committed; an
\* outer group of suppressed inner groups and absent variables is discarded
\* when at least one of the absent variables is its own child; an outer
\* group whose children are all suppressed inner groups referenced no
\* variable itself: it is committed, empty, and reports itself as surviving.
C22_GroupReport ==
    ev.op = "GroupReturn" =>
        /\ ReportsIffCommitted
        /\ (/\ OnlySuppressedContent
            /\ \E i \in 1..Len(ev.e.children) : AbsentVariable(ev.e.children[i]))
              => Discarded(ev.mark)
        /\ (/\ ev.e.children # << >>
            /\ \A i \in 1..Len(ev.e.children) : ev.suppressed[i])
              => /\ Committed(ev.mark)
                 /\ ctx.buf = ev.opened
                 /\ ctx.usage[Len(ctx.usage)].has_non_empty_group

\* an outer group of a suppressed inner group and an absent variable has
\* been discarded and the enclosing flag is still unset
C22_Witness ==
    /\ ev.op = "GroupReturn" /\ Discarded(ev.mark)
    /\ OnlySuppressedContent
    /\ \E i \in 1..Len(ev.e.children) : ev.suppressed[i]
    /\ \E i \in 1..Len(ev.e.children) : AbsentVariable(ev.e.children[i])
    /\ ~ctx.usage[Len(ctx.usage)].has_non_empty_group

\* the rendering of NestedLayout on an entry without title and note has
\* ended: the group between the two has reported itself and the literal of
\* the outermost group is in the output
C22_LiteralKept ==
    /\ Done /\ style.layout = NestedLayout
    /\ ~entry.title.some /\ ~entry.note.some
    /\ ctx.buf = <<"^", "A">>

\* an outer group of suppressed inner groups only has been committed
C22_WitnessOnlyGroups ==
    /\ ev.op = "GroupReturn" /\ Committed(ev.mark)
    /\ ev.e.children # << >>
    /\ \A i \in 1..Len(ev.e.children) : ev.suppressed[i]
    /\ ~ev.usage_before[Len(ev.usage_before) - 1].has_non_empty_group

(***************************************************************************)
(* C23: a region is committed with the Text tag exactly when it is the     *)
(* region of a Text with a variable target, with CitationNumber for a      *)
(* Number of the citation number, with Number for every other Number, with *)
(* Date for a Date and with Label for a Label; no other step of the        *)
(* renderers adds a tag; each tag covers what its element wrote, and no    *)
(* tagged range contains or overlaps another.                              *)
(***************************************************************************)
\* the tag the element of the step carries when it commits a region
LeafTag ==
    CASE ev'.op = "RenderText" /\ ev'.e.target.t = "Variable" -> Some("Text")
      [] ev'.op = "RenderNumber" ->
            IF ev'.e.variable = "citation_number" THEN Some("CitationNumber")
            ELSE Some("Number")
      [] ev'.op = "RenderLabel" -> Some("Label")
      [] ev'.op = "RenderDate" -> Some("Date")
      [] OTHER -> None

TagsDisjoint(tags, len) ==
    /\ \A i \in 1..Len(tags) : tags[i].from <= tags[i].to /\ tags[i].to <= len
    /\ \A i, j \in 1..Len(tags) : i < j => tags[i].to <= tags[j].from

TagStep ==
    /\ IF LeafTag.some /\ ctx'.pushes > ctx.pushes
       THEN ctx'.tags = Append(ctx.tags, [from |-> Len(ctx.buf), to |-> Len(ctx'.buf),
                                          tag |-> LeafTag.v])
       ELSE /\ Len(ctx'.tags) <= Len(ctx.tags)
            /\ ctx'.tags = SubSeq(ctx.tags, 1, Len(ctx'.tags))
    /\ TagsDisjoint(ctx'.tags, Len(ctx'.buf))

C23_Tags == [][TagStep]_vars

\* a Number of the citation number has committed its text with the tag
C23_Witness ==
    /\ ev.op = "RenderNumber" /\ ctx.tags # << >>
    /\ ctx.tags[Len(ctx.tags)].tag = "CitationNumber"
    /\ ctx.tags[Len(ctx.tags)].from < ctx.tags[Len(ctx.tags)].to

\* two tagged ranges, one after the other, the second inside a macro
C23_WitnessTwo ==
    /\ Done /\ Len(ctx.tags) >= 2
    /\ \A i \in 1..Len(ctx.tags) : ctx.tags[i].from < ctx.tags[i].to

\* a Text with a literal, a term or a macro target has written untagged text
C23_WitnessUntagged ==
    /\ ev.op = "MacroReturn" /\ ctx.tags = << >> /\ Len(ctx.buf) > Len(ev.opened)

(***************************************************************************)
(* C24: period stripping is scoped to the element that enabled it: while a *)
(* Text with strip-periods is rendering the macro it expands, the setting  *)
(* stays in effect and nothing written inside it keeps a period, also      *)
(* after a nested element has called stop_stripping_periods; and every     *)
(* stop_stripping_periods closes a scope that may_strip_periods opened in  *)
(* the same renderer.                                                      *)
(***************************************************************************)
\* a Text with strip-periods is rendering the children of its macro
InStrippingText ==
    \E k \in 1..Len(stack) : stack[k].f = "Macro" /\ stack[k].e.strip_periods

\* the Texts that have called may_strip_periods and not yet
\* stop_stripping_periods
OpenStripScopes == Cardinality({k \in 1..Len(stack) : stack[k].f = "Macro"})

C24_StripScoped ==
    /\ InStrippingText => ctx.strip
    /\ (ev.op = "MacroReturn" /\ ev.e.strip_periods) =>
          \A i \in (Len(ev.body) + 1)..Len(ev.before.buf) : ev.before.buf[i] # "."
    /\ ctx.stops + OpenStripScopes = ctx.mays

\* what holds of C24: a leaf Text that enables stripping itself writes its
\* own content without periods, and the toggle is off whenever no Text is
\* rendering a macro
C24_StripOwnContent ==
    /\ (ev.op = "RenderText" /\ ev.e.strip_periods /\ ctx.pushes > ev.before.pushes) =>
          \A i \in (Len(ev.before.buf) + 1)..Len(ctx.buf) : ctx.buf[i] # "."
    /\ OpenStripScopes = 0 => ~ctx.strip

\* a Text with strip-periods has expanded a macro of a year and a number
\* with a period: the period of the number is in the output
C24_PeriodKept ==
    /\ ev.op = "MacroReturn" /\ ev.e.strip_periods
    /\ style.macros["s"] = <<Date(Some("issued"), None, None,
                                  <<DatePart("Year", "Long", NoAffixes)>>,
                                  None, NoAffixes),
                             Number("page", NoAffixes)>>
    /\ SubSeq(ev.before.buf, Len(ev.body) + 1, Len(ev.before.buf))
          = <<"2", "0", "2", "0", "5", ".">>

(***************************************************************************)
(* C25: a Date that names a localized form renders the parts of the        *)
(* localized base in the base's order, a Month part only when the          *)
(* effective mask has the month, a Day part only when it has the day, the  *)
(* Year part always; the mask and the text-case are the Date's own when    *)
(* set and the base's otherwise; a part takes the form of the same-named   *)
(* part of the Date when there is one, and its text-case when that part    *)
(* sets one, and keeps the base's otherwise.                               *)
(***************************************************************************)
RECURSIVE Flatten(_)
Flatten(seqs) == IF seqs = << >> THEN << >> ELSE Head(seqs) \o Flatten(Tail(seqs))

\* Date in normal mode with a date and a localized form the locale defines
LocalizedDate ==
    /\ NormalDate /\ ev.e.form.some

\* the part of the base with the fields the same-named local part overrides
EffectivePart(e, part) ==
    LET local == FindPart(e.date_part, part.name)
    IN IF ~local.some THEN part
       ELSE [part EXCEPT !.form = local.v.form,
                         !.text_case = IF local.v.text_case.some
                                       THEN local.v.text_case ELSE @]

EffectiveMask(e) ==
    IF e.parts.some THEN e.parts.v
    ELSE IF DateBase(e).v.parts.some THEN DateBase(e).v.parts.v
    ELSE "YearMonthDay"

InMask(e, part) ==
    CASE part.name = "Month" -> EffectiveMask(e) \in {"YearMonth", "YearMonthDay"}
      [] part.name = "Day" -> EffectiveMask(e) = "YearMonthDay"
      [] OTHER -> TRUE

\* what the parts write, in the order of the base
LocalizedOuts(e, date) ==
    [i \in 1..Len(DateBase(e).v.date_part) |->
        LET part == DateBase(e).v.date_part[i]
        IN IF InMask(e, part)
           THEN render_date_part(InitCtx, EffectivePart(e, part), date, None).buf
           ELSE EmptyStr]

\* the text-cases in effect, the Date's first and then one for each part
\* that is rendered
LocalizedCases(e, date) ==
    <<IF e.text_case.some THEN e.text_case ELSE DateBase(e).v.text_case>>
    \o Flatten([i \in 1..Len(DateBase(e).v.date_part) |->
            LET part == DateBase(e).v.date_part[i]
            IN IF InMask(e, part) /\ DatePartValue(part, date).some
               THEN <<EffectivePart(e, part).text_case>>
               ELSE << >>])

C25_WitnessOverride ==
    /\ LocalizedDate /\ ev.e.form.v = "long"
    /\ ev.e.parts = Some("YearMonthDay") /\ ev.e.text_case = Some("title")
    /\ Len(ev.e.date_part) = 2
    /\ entry.issued.v.month.some /\ entry.issued.v.day.some
    /\ ctx.case_log = <<Some("title"), Some("lowercase"), Some("title"), None>>

(***************************************************************************)
(* C26: two dates rendered in sort mode under the same mask and without a  *)
(* year suffix give strings of the same length that compare, character by  *)
(* character, as the dates compare by (year, month, day), an absent month  *)
(* or day before every present one; for negative years too.                *)
(***************************************************************************)
\* the order of the characters of a sort key
CharRank(ch) ==
    CASE ch = "-" -> 0
      [] ch = "0" -> 1 [] ch = "1" -> 2 [] ch = "2" -> 3 [] ch = "3" -> 4
      [] ch = "4" -> 5 [] ch = "5" -> 6 [] ch = "6" -> 7 [] ch = "7" -> 8
      [] ch = "8" -> 9 [] ch = "9" -> 10
      [] OTHER -> 11

RECURSIVE LexLess(_, _)
\* a sorts before b, character by character
LexLess(a, b) ==
    IF b = << >> THEN FALSE
    ELSE IF a = << >> THEN TRUE
    ELSE IF Head(a) # Head(b) THEN CharRank(Head(a)) < CharRank(Head(b))
    ELSE LexLess(Tail(a), Tail(b))

\* month or day under the mask: absent before every present one
MaskedField(e, name, o) ==
    IF ~SortHas(e, name) THEN 0 ELSE IF o.some THEN o.v ELSE -1

\* a is before b by (year, month, day) under the mask of e
DateBefore(e, a, b) ==
    LET ya == IF SortHas(e, "Year") THEN a.year ELSE 0
        yb == IF SortHas(e, "Year") THEN b.year ELSE 0
        ma == MaskedField(e, "Month", a.month)
        mb == MaskedField(e, "Month", b.month)
        da == MaskedField(e, "Day", a.day)
        db == MaskedField(e, "Day", b.day)
    IN \/ ya < yb
       \/ ya = yb /\ ma < mb
       \/ ya = yb /\ ma = mb /\ da < db

\* the key the same Date writes for another date
SortKeyOf(e, date) ==
    LET c == DateSortKey(ev.before, e, date)
    IN SubSeq(c.buf, Len(ev.before.buf) + 1, Len(c.buf))

\* a date has been rendered for sorting and no year suffix is written
SortNoSuffix ==
    SortDate /\ ~(style.year_suffix_implicit /\ entry.year_suffix.some)

C26_SortOrder ==
    SortNoSuffix =>
        \A other \in SortValues :
            LET date == resolve_date_variable(ev.e.variable.v).v
            IN /\ Len(Written) = Len(SortKeyOf(ev.e, other))
               /\ LexLess(Written, SortKeyOf(ev.e, other))
                    <=> DateBefore(ev.e, date, other)

\* what holds of C26: the same for two dates whose years are not negative
C26_SortOrderFromYear0 ==
    (SortNoSuffix /\ resolve_date_variable(ev.e.variable.v).v.year >= 0) =>
        \A other \in SortValues :
            other.year >= 0 =>
              LET date == resolve_date_variable(ev.e.variable.v).v
              IN /\ Len(Written) = Len(SortKeyOf(ev.e, other))
                 /\ LexLess(Written, SortKeyOf(ev.e, other))
                      <=> DateBefore(ev.e, date, other)

\* the year -44 has been rendered for sorting: its key is before the key
\* of the earlier year -100
C26_KeysReversed ==
    /\ SortNoSuffix /\ ev.e.date_part = <<PartYear>>
    /\ entry.issued.v.year = -44
    /\ Written = <<"-", "0", "4", "4">>
    /\ SortKeyOf(ev.e, DateValue(-100, None, None)) = <<"-", "1", "0", "0">>
    /\ LexLess(Written, SortKeyOf(ev.e, DateValue(-100, None, None)))

(***************************************************************************)
(* C27: in render_with_delimiter a discard of the pending delimiter region *)
(* never erases the output of a child that rendered non-empty: every child *)
(* rendered since that region was opened was empty, and what is discarded  *)
(* is the delimiter text alone.                                            *)
(***************************************************************************)
\* the step discarded the pending delimiter region
DelimiterDiscarded ==
    ev.op = "RWDReturn" /\ ev.mark # 0 /\ Discarded(ev.mark)

C27_DiscardOnlyDelimiter ==
    DelimiterDiscarded =>
        /\ \A j \in ev.loc_i..Len(ev.outs) : ev.outs[j] = EmptyStr
        /\ SubSeq(ev.before, Len(ev.opened) + 1, Len(ev.before)) = ev.delimiter.v
        /\ ctx.buf = ev.opened

\* the delimiter after a non-empty child is discarded after two empty ones
C27_Witness ==
    /\ DelimiterDiscarded
    /\ ev.loc_i = 2 /\ Len(ev.outs) = 3 /\ ev.outs[1] # EmptyStr
    /\ ev.delimiter.v # EmptyStr

\* a pending delimiter with a non-empty child inside it is committed
C27_WitnessCommitted ==
    /\ ev.op = "RWDReturn" /\ ev.mark # 0 /\ Committed(ev.mark)
    /\ ev.loc_i < Len(ev.outs) /\ ev.outs[ev.loc_i] = EmptyStr
    /\ ev.outs[Len(ev.outs)] # EmptyStr

(***************************************************************************)
(* C28: Span::join returns the smallest span that covers both operands:    *)
(* its start is the smaller start and its end the larger end; join is      *)
(* commutative, associative and idempotent; expand(other) leaves self      *)
(* equal to join(self, other).                                             *)
(***************************************************************************)
\* span a covers span b
Covers(a, b) == a.start <= b.start /\ b.end <= a.end

C28_Join ==
    span_op.op = "expand" =>
        LET self == span_op.self
            other == span_op.other
        IN /\ span = join(self, other)
           /\ span.start = (IF self.start <= other.start THEN self.start
                            ELSE other.start)
           /\ span.end = (IF self.end >= other.end THEN self.end ELSE other.end)
           /\ Covers(span, self) /\ Covers(span, other)
           /\ \A c \in SpanValues :
                 (Covers(c, self) /\ Covers(c, other)) => Covers(c, span)
           /\ join(self, other) = join(other, self)
           /\ join(self, self) = self
           /\ \A c \in SpanValues :
                 join(join(self, other), c) = join(self, join(other, c))

\* self has been expanded by a span that starts before it and one that
\* ends after it
C28_Witness ==
    /\ span_op.op = "expand"
    /\ span_op.other.start < span_op.self.start
    /\ span_op.other.end < span_op.self.end
    /\ span = new(span_op.other.start, span_op.self.end)

(***************************************************************************)
(* C29: Span::at(pos) is the span of the single position pos: the range    *)
(* to_range gives for it contains pos and nothing else.                    *)
(***************************************************************************)
\* the positions an index range contains
RangePositions(range) == {pos \in 0..(MaxPos + 1) : RangeContains(range, pos)}

C29_AtRange ==
    (span_op.op = "to_range" /\ span_op.self = at(span_op.self.start)) =>
        RangePositions(span_op.range) = {span_op.self.start}

\* what holds of C29: the range of a span is start..end, without the end
C29_RangeHalfOpen ==
    span_op.op = "to_range" =>
        RangePositions(span_op.range)
            = {pos \in 0..(MaxPos + 1) : span_op.self.start <= pos /\ pos < span_op.self.end}

\* the range of Span::at(2) has been taken: it is empty
C29_EmptyRange ==
    /\ span_op.op = "to_range" /\ span_op.self = at(2)
    /\ RangePositions(span_op.range) = {}
====
